---- MODULE Spec2Model ----
(***************************************************************************)
(* A model of the json-sql query engine: the expression evaluator and the  *)
(* clause pipeline of abstra_json_sql/apply.py, run against an in-memory   *)
(* table snapshot (abstra_json_sql/tables.py); and the table stores of     *)
(* tables.py: InMemoryTables, FileSystemJsonTables, FileSystemJsonLTables  *)
(* and ExtendedTables.                                                     *)
(*                                                                         *)
(* Python values are tagged records [type, n, d, s]:                       *)
(*   int    n          float  n/d in lowest terms, d > 0                   *)
(*   bool   n (0/1)    str    s          NoneType                          *)
(*   exception: a raised error, s is its kind                              *)
(* A float is kept as an exact fraction; the claims checked here depend on *)
(* the type and the sign of a float, never on its rounding.                *)
(***************************************************************************)
EXTENDS Integers, Sequences, FiniteSets, TLC

VARIABLES
    select,      \* the Select command being executed
    tables,      \* InMemoryTables.tables: table name -> [name, columns, data]
    ctx,         \* the base context passed to apply_select
    result,      \* what apply_select returned: [status, rows] or [status, error]
    pc,          \* "ready" before the call, "done" after it
    expression,  \* the expression handed to apply_expression (SpecExpr)
    value,       \* what apply_expression returned or raised (SpecExpr)
    store,       \* the table store an operation is called on (SpecStore, SpecNames)
    prior,       \* the store as it was before the last call
    call,        \* the last call: [op, ...arguments]
    ret,         \* what the last call returned or raised
    procs        \* the callers of two calls running at once: position and locals (SpecRace)

vars == <<select, tables, ctx, result, pc, expression, value, store, prior, call, ret, procs>>

-----------------------------------------------------------------------------
(* Bounds of the model                                                     *)

MaxRows == 3

\* The rows of a table a store holds before a call (SpecStore).
MaxStoreRows == 2

\* The rows of each table of a join (SpecClause).
MaxJoinRows == 2

\* The pieces after the head of a token list (SpecParse).
MaxClauses == 3

\* The characters of a text handed to the tokenizer (SpecLex).
MaxChars == 5

-----------------------------------------------------------------------------
(* Python values                                                           *)

PyInt(i) == [type |-> "int", n |-> i, d |-> 1, s |-> ""]
PyBool(b) == [type |-> "bool", n |-> IF b THEN 1 ELSE 0, d |-> 1, s |-> ""]
PyStr(str) == [type |-> "str", n |-> 0, d |-> 1, s |-> str]
PyNone == [type |-> "NoneType", n |-> 0, d |-> 1, s |-> ""]
Raise(kind) == [type |-> "exception", n |-> 0, d |-> 1, s |-> kind]

Abs(i) == IF i < 0 THEN -i ELSE i

RECURSIVE GCD(_, _)
GCD(a, b) == IF b = 0 THEN a ELSE GCD(b, a % b)

\* The float num/den (den # 0), in lowest terms with a positive denominator.
PyFloat(num, den) ==
    LET g == GCD(Abs(num), Abs(den))
        sgn == IF den < 0 THEN -1 ELSE 1
    IN  [type |-> "float", n |-> sgn * (num \div g), d |-> Abs(den) \div g, s |-> ""]

IsException(v) == v.type = "exception"

\* isinstance(v, (int, float)): bool is a subclass of int, so a bool passes.
isinstance_int_float(v) == v.type \in {"int", "float", "bool"}

\* isinstance(v, str)
isinstance_str(v) == v.type = "str"

\* v is True / v is False / v is None
is_True(v) == v.type = "bool" /\ v.n = 1
is_False(v) == v.type = "bool" /\ v.n = 0
is_None(v) == v.type = "NoneType"

\* bool(v): Python's truth value of v.
py_truthy(v) ==
    CASE v.type = "NoneType" -> FALSE
      [] v.type = "str" -> v.s # ""
      [] OTHER -> v.n # 0

\* Python's == on the values of the model: numbers (bool included) compare by
\* numeric value across types, strings by content, None equals only None.
py_eq(a, b) ==
    IF isinstance_int_float(a) /\ isinstance_int_float(b)
    THEN a.n * b.d = b.n * a.d
    ELSE a.type = b.type /\ a.s = b.s

\* Python's < on two numbers.
py_lt(a, b) == a.n * b.d < b.n * a.d

\* a + b, a - b, a * b on numbers: int unless one operand is a float.
py_arith(a, b, num, den) ==
    IF a.type = "float" \/ b.type = "float" THEN PyFloat(num, den)
    ELSE PyInt(num \div den)

py_add(a, b) == py_arith(a, b, a.n * b.d + b.n * a.d, a.d * b.d)
py_sub(a, b) == py_arith(a, b, a.n * b.d - b.n * a.d, a.d * b.d)
py_mul(a, b) == py_arith(a, b, a.n * b.n, a.d * b.d)

\* a / b (b # 0): true division, always a float.
py_truediv(a, b) == PyFloat(a.n * b.d, a.d * b.n)

\* str.lower() and str.upper() on the strings of the model.
str_lower(str) ==
    CASE str = "TRUE" -> "true"
      [] str = "True" -> "true"
      [] str = "FALSE" -> "false"
      [] str = "COUNT" -> "count"
      [] str = "Count" -> "count"
      [] str = "SUM" -> "sum"
      [] str = "A" -> "a"
      [] str = "B" -> "b"
      [] str = "Ab" -> "ab"
      [] str = "AB" -> "ab"
      [] OTHER -> str

str_upper(str) ==
    CASE str = "a" -> "A"
      [] str = "b" -> "B"
      [] str = "ab" -> "AB"
      [] str = "Ab" -> "AB"
      [] OTHER -> str

-----------------------------------------------------------------------------
(* The abstract syntax tree (the node classes apply.py imports)            *)

StringExpression(str) == [kind |-> "StringExpression", value |-> PyStr(str)]
IntExpression(i) == [kind |-> "IntExpression", value |-> PyInt(i)]
FloatExpression(num, den) == [kind |-> "FloatExpression", value |-> PyFloat(num, den)]
NameExpression(nm) == [kind |-> "NameExpression", name |-> nm]
WildcardExpression == [kind |-> "WildcardExpression"]
FunctionCallExpression(nm, as) == [kind |-> "FunctionCallExpression", name |-> nm, args |-> as]
BinaryExpression(k, l, r) == [kind |-> k, left |-> l, right |-> r]
PlusExpression(l, r) == BinaryExpression("PlusExpression", l, r)
MinusExpression(l, r) == BinaryExpression("MinusExpression", l, r)
MultiplyExpression(l, r) == BinaryExpression("MultiplyExpression", l, r)
DivideExpression(l, r) == BinaryExpression("DivideExpression", l, r)
EqualExpression(l, r) == BinaryExpression("EqualExpression", l, r)
NotEqualExpression(l, r) == BinaryExpression("NotEqualExpression", l, r)
GreaterThanExpression(l, r) == BinaryExpression("GreaterThanExpression", l, r)
GreaterThanOrEqualExpression(l, r) == BinaryExpression("GreaterThanOrEqualExpression", l, r)
LessThanExpression(l, r) == BinaryExpression("LessThanExpression", l, r)
LessThanOrEqualExpression(l, r) == BinaryExpression("LessThanOrEqualExpression", l, r)

ArithmeticKinds ==
    {"PlusExpression", "MinusExpression", "MultiplyExpression", "DivideExpression"}
EqualityKinds == {"EqualExpression", "NotEqualExpression"}
OrderingKinds ==
    {"GreaterThanExpression", "GreaterThanOrEqualExpression",
     "LessThanExpression", "LessThanOrEqualExpression"}
BinaryKinds == ArithmeticKinds \cup EqualityKinds \cup OrderingKinds

\* None where a clause is absent.
None == [kind |-> "None"]

SelectField(e, al) == [kind |-> "SelectField", expression |-> e, alias |-> al]
From(tb, js) == [kind |-> "From", table |-> tb, join |-> js]
Join(tb, e) == [kind |-> "Join", table |-> tb, on |-> e]
Where(e) == [kind |-> "Where", expression |-> e]
GroupBy(fs) == [kind |-> "GroupBy", fields |-> fs]
OrderField(e, dir) == [kind |-> "OrderField", expression |-> e, direction |-> dir]
OrderBy(fs) == [kind |-> "OrderBy", fields |-> fs]
Limit(lim, off) == [kind |-> "Limit", limit |-> lim, offset |-> off]
Select(fs, fr, wh, gr, ord, lim) ==
    [kind |-> "Select", field_parts |-> fs, from_part |-> fr, where_part |-> wh,
     group_part |-> gr, order_part |-> ord, limit_part |-> lim]

-----------------------------------------------------------------------------
(* apply.py: the expression evaluator                                      *)

GROUPED_ROWS == "__grouped_rows"

\* {**a, **b}: the keys of both, b's value where both have the key.
dict_merge(a, b) ==
    [k \in DOMAIN a \cup DOMAIN b |-> IF k \in DOMAIN b THEN b[k] ELSE a[k]]

\* {**a, key: v}
dict_set(a, key, v) == [k \in DOMAIN a \cup {key} |-> IF k = key THEN v ELSE a[k]]

EmptyDict == [k \in {} |-> PyNone]

is_aggregate_function(name) ==
    str_lower(name) \in {"sum", "avg", "count", "min", "max"}

apply_plus(left_value, right_value) ==
    IF isinstance_int_float(left_value) /\ isinstance_int_float(right_value)
    THEN py_add(left_value, right_value)
    ELSE Raise("Unsupported types")

apply_minus(left_value, right_value) ==
    IF isinstance_int_float(left_value) /\ isinstance_int_float(right_value)
    THEN py_sub(left_value, right_value)
    ELSE Raise("Unsupported types")

apply_multiply(left_value, right_value) ==
    IF isinstance_int_float(left_value) /\ isinstance_int_float(right_value)
    THEN py_mul(left_value, right_value)
    ELSE Raise("Unsupported types")

\* A variant of apply_divide that yields null for a zero divisor.
apply_divide_null_on_zero(left_value, right_value) ==
    IF isinstance_int_float(left_value) /\ isinstance_int_float(right_value)
    THEN IF py_eq(right_value, PyInt(0))
         THEN PyNone
         ELSE py_truediv(left_value, right_value)
    ELSE Raise("Unsupported types")

apply_divide(left_value, right_value) ==
    IF isinstance_int_float(left_value) /\ isinstance_int_float(right_value)
    THEN IF py_eq(right_value, PyInt(0))
         THEN Raise("Division by zero")
         ELSE py_truediv(left_value, right_value)
    ELSE Raise("Unsupported types")

apply_equal(left_value, right_value) == PyBool(py_eq(left_value, right_value))

apply_not_equal(left_value, right_value) == PyBool(~py_eq(left_value, right_value))

apply_greater_than(left_value, right_value) ==
    IF isinstance_int_float(left_value) /\ isinstance_int_float(right_value)
    THEN PyBool(py_lt(right_value, left_value))
    ELSE Raise("Unsupported types")

apply_greater_than_or_equal(left_value, right_value) ==
    IF isinstance_int_float(left_value) /\ isinstance_int_float(right_value)
    THEN PyBool(~py_lt(left_value, right_value))
    ELSE Raise("Unsupported types")

apply_less_than(left_value, right_value) ==
    IF isinstance_int_float(left_value) /\ isinstance_int_float(right_value)
    THEN PyBool(py_lt(left_value, right_value))
    ELSE Raise("Unsupported types")

apply_less_than_or_equal(left_value, right_value) ==
    IF isinstance_int_float(left_value) /\ isinstance_int_float(right_value)
    THEN PyBool(~py_lt(right_value, left_value))
    ELSE Raise("Unsupported types")

\* The operator branch of apply_expression for one binary node kind, given the
\* values of its two operands.
apply_binary(kind, left_value, right_value) ==
    CASE kind = "PlusExpression" -> apply_plus(left_value, right_value)
      [] kind = "MinusExpression" -> apply_minus(left_value, right_value)
      [] kind = "MultiplyExpression" -> apply_multiply(left_value, right_value)
      [] kind = "DivideExpression" -> apply_divide(left_value, right_value)
      [] kind = "EqualExpression" -> apply_equal(left_value, right_value)
      [] kind = "NotEqualExpression" -> apply_not_equal(left_value, right_value)
      [] kind = "GreaterThanExpression" -> apply_greater_than(left_value, right_value)
      [] kind = "GreaterThanOrEqualExpression" ->
            apply_greater_than_or_equal(left_value, right_value)
      [] kind = "LessThanExpression" -> apply_less_than(left_value, right_value)
      [] kind = "LessThanOrEqualExpression" ->
            apply_less_than_or_equal(left_value, right_value)

\* A variant of apply_count whose count of a column counts the rows that
\* have the key, null or not.
apply_count_with_nulls(args, c) ==
    IF Len(args) # 1 THEN Raise("AssertionError")
    ELSE IF GROUPED_ROWS \notin DOMAIN c THEN Raise("KeyError")
    ELSE IF args[1].kind = "WildcardExpression"
    THEN PyInt(Len(c[GROUPED_ROWS]))
    ELSE IF args[1].kind = "NameExpression"
    THEN PyInt(Cardinality({i \in 1..Len(c[GROUPED_ROWS]) :
                   args[1].name \in DOMAIN c[GROUPED_ROWS][i]}))
    ELSE PyNone

\* count(...): the only aggregate apply_expression implements.
apply_count(args, c) ==
    IF Len(args) # 1 THEN Raise("AssertionError")
    ELSE IF args[1].kind = "WildcardExpression"
    THEN IF GROUPED_ROWS \in DOMAIN c
         THEN PyInt(Len(c[GROUPED_ROWS]))
         ELSE Raise("KeyError")
    ELSE IF args[1].kind = "NameExpression"
    THEN IF GROUPED_ROWS \in DOMAIN c
         THEN PyInt(Cardinality({i \in 1..Len(c[GROUPED_ROWS]) :
                        /\ args[1].name \in DOMAIN c[GROUPED_ROWS][i]
                        /\ ~is_None(c[GROUPED_ROWS][i][args[1].name])}))
         ELSE Raise("KeyError")
    ELSE PyNone

\* The aggregate branch: a name is_aggregate_function accepts.
apply_aggregate_function(name, args, c) ==
    IF str_lower(name) = "count" THEN apply_count(args, c)
    ELSE Raise("Unknown aggregate function")

\* The scalar branch, given the values of the arguments (none is an exception).
apply_scalar_function(name, args) ==
    IF name = "lower"
    THEN IF Len(args) = 0 THEN Raise("IndexError")
         ELSE IF ~isinstance_str(args[1]) THEN Raise("AssertionError")
         ELSE PyStr(str_lower(args[1].s))
    ELSE IF name = "upper"
    THEN IF Len(args) = 0 THEN Raise("IndexError")
         ELSE IF ~isinstance_str(args[1]) THEN Raise("AssertionError")
         ELSE PyStr(str_upper(args[1].s))
    ELSE Raise("Unknown function")

RECURSIVE apply_expression(_, _)
apply_expression(e, c) ==
    IF e.kind \in {"StringExpression", "IntExpression", "FloatExpression"}
    THEN e.value
    ELSE IF e.kind = "NameExpression" /\ str_lower(e.name) \in {"true", "false"}
    THEN PyBool(str_lower(e.name) = "true")
    ELSE IF e.kind = "NameExpression"
    THEN IF e.name \in DOMAIN c THEN c[e.name] ELSE Raise("Unknown variable")
    ELSE IF e.kind \in BinaryKinds
    THEN LET left_value == apply_expression(e.left, c)
         IN  IF IsException(left_value) THEN left_value
             ELSE LET right_value == apply_expression(e.right, c)
                  IN  IF IsException(right_value) THEN right_value
                      ELSE apply_binary(e.kind, left_value, right_value)
    ELSE IF e.kind = "FunctionCallExpression"
    THEN IF is_aggregate_function(e.name)
         THEN apply_aggregate_function(e.name, e.args, c)
         ELSE LET args == [i \in 1..Len(e.args) |-> apply_expression(e.args[i], c)]
                  raised == {i \in 1..Len(args) : IsException(args[i])}
              IN  IF raised # {}
                  THEN args[CHOOSE i \in raised : \A j \in raised : i <= j]
                  ELSE apply_scalar_function(e.name, args)
    ELSE Raise("Unsupported expression type")

-----------------------------------------------------------------------------
(* field_name.py                                                           *)

\* A variant of field_name that ignores the alias.
field_name_without_alias(field) ==
    IF field.expression.kind = "NameExpression"
    THEN field.expression.name
    ELSE IF field.expression.kind = "FunctionCallExpression"
    THEN field.expression.name
    ELSE "?column?"

\* field.alias is None or a string; `if field.alias:` is its truth value.
field_name(field) ==
    IF py_truthy(field.alias)
    THEN field.alias.s
    ELSE IF field.expression.kind = "NameExpression"
    THEN field.expression.name
    ELSE IF field.expression.kind = "FunctionCallExpression"
    THEN field.expression.name
    ELSE "?column?"

\* The key a group expression is stored under in a group's pseudo-row.
expression_name(e) ==
    IF e.kind = "NameExpression" THEN e.name
    ELSE IF e.kind = "FunctionCallExpression" THEN e.name
    ELSE "?column?"

-----------------------------------------------------------------------------
(* apply.py: the clause pipeline.  A stage returns Ok(rows) or Fail(kind). *)

Ok(rows) == [ok |-> TRUE, data |-> rows, error |-> ""]
Fail(kind) == [ok |-> FALSE, data |-> <<>>, error |-> kind]

\* The least element of a non-empty set of integers.
Min(S) == CHOOSE i \in S : \A j \in S : i <= j

\* The subsequence of seq at the indices in idx, in index order.
RECURSIVE SubSeqAt(_, _)
SubSeqAt(seq, idx) ==
    IF idx = {} THEN <<>>
    ELSE <<seq[Min(idx)]>> \o SubSeqAt(seq, idx \ {Min(idx)})

\* data[start:end] for any integers start and end.
py_slice(data, start, end) ==
    LET len == Len(data)
        clamp(i) == IF i < 0 THEN (IF i + len < 0 THEN 0 ELSE i + len)
                    ELSE (IF i > len THEN len ELSE i)
    IN  SubSeqAt(data, {i \in 1..len : clamp(start) < i /\ i <= clamp(end)})

\* A variant of apply_where that keeps the rows on which the predicate is
\* truthy and drops the others, whatever the type of its value.
apply_where_truthy(where, data, c) ==
    LET values == [i \in 1..Len(data) |->
                      apply_expression(where.expression, dict_merge(c, data[i]))]
        raised == {i \in 1..Len(data) : IsException(values[i])}
    IN  IF raised # {} THEN Fail(values[Min(raised)].s)
        ELSE Ok(SubSeqAt(data, {i \in 1..Len(data) : py_truthy(values[i])}))

apply_where(where, data, c) ==
    LET values == [i \in 1..Len(data) |->
                      apply_expression(where.expression, dict_merge(c, data[i]))]
        bad == {i \in 1..Len(data) : ~is_True(values[i]) /\ ~is_False(values[i])}
    IN  IF bad # {}
        THEN IF IsException(values[Min(bad)])
             THEN Fail(values[Min(bad)].s)
             ELSE Fail("Where expressions should return bool")
        ELSE Ok(SubSeqAt(data, {i \in 1..Len(data) : is_True(values[i])}))

\* Whether Python orders a and b with <: numbers among themselves, strings
\* among themselves; None is ordered with nothing.
py_orderable(a, b) ==
    \/ isinstance_int_float(a) /\ isinstance_int_float(b)
    \/ a.type = "str" /\ b.type = "str"

\* a < b on two orderable values (strings of the model are ordered by
\* their position in StrOrder).
StrOrder == <<"", "A", "AB", "Ab", "B", "a", "ab", "b", "c">>
StrRank(str) == IF \E i \in 1..Len(StrOrder) : StrOrder[i] = str
                THEN CHOOSE i \in 1..Len(StrOrder) : StrOrder[i] = str
                ELSE 0
py_less(a, b) ==
    IF a.type = "str" THEN StrRank(a.s) < StrRank(b.s) ELSE py_lt(a, b)

\* The permutations of a sequence.
Permutations_of(seq) ==
    {[i \in 1..Len(seq) |-> seq[f[i]]] :
        f \in {g \in [1..Len(seq) -> 1..Len(seq)] :
                  \A i, j \in 1..Len(seq) : i # j => g[i] # g[j]}}

\* A wrong sort: reverse is done by sorting ascending and reversing the
\* list, which turns the order of equal keys around.
list_sort_reversed_after(data, keys, reverse) ==
    LET n == Len(data)
        raised == {i \in 1..n : IsException(keys[i])}
        before(i, j) ==
            \/ IF reverse THEN py_less(keys[j], keys[i]) ELSE py_less(keys[i], keys[j])
            \/ /\ ~py_less(keys[i], keys[j]) /\ ~py_less(keys[j], keys[i])
               /\ IF reverse THEN j < i ELSE i < j
        pos(i) == 1 + Cardinality({j \in 1..n : j # i /\ before(j, i)})
    IN  IF raised # {}
        THEN {[ok |-> FALSE, data |-> data, error |-> keys[Min(raised)].s]}
        ELSE IF n >= 2 /\ \E i, j \in 1..n : ~py_orderable(keys[i], keys[j])
        THEN {[ok |-> FALSE, data |-> p, error |-> "TypeError"] :
                 p \in Permutations_of(data)}
        ELSE {Ok([k \in 1..n |-> data[CHOOSE i \in 1..n : pos(i) = k]])}

\* list.sort(key=..., reverse=...) given the keys: the outcomes it can have.
\* A key that raised leaves the list as it was; a failed comparison leaves
\* the list in some order, whichever the sort had reached; otherwise the
\* list is stably sorted (reverse keeps the order of equal keys too).
list_sort(data, keys, reverse) ==
    LET n == Len(data)
        raised == {i \in 1..n : IsException(keys[i])}
        before(i, j) ==
            \/ IF reverse THEN py_less(keys[j], keys[i]) ELSE py_less(keys[i], keys[j])
            \/ ~py_less(keys[i], keys[j]) /\ ~py_less(keys[j], keys[i]) /\ i < j
        pos(i) == 1 + Cardinality({j \in 1..n : j # i /\ before(j, i)})
    IN  IF raised # {}
        THEN {[ok |-> FALSE, data |-> data, error |-> keys[Min(raised)].s]}
        ELSE IF n >= 2 /\ \E i, j \in 1..n : ~py_orderable(keys[i], keys[j])
        THEN {[ok |-> FALSE, data |-> p, error |-> "TypeError"] :
                 p \in Permutations_of(data)}
        ELSE {Ok([k \in 1..n |-> data[CHOOSE i \in 1..n : pos(i) = k]])}

\* apply_order_by from order field number k on: the list after each outcome.
RECURSIVE order_by_from(_, _, _, _)
order_by_from(fields, k, data, c) ==
    IF k > Len(fields) THEN {Ok(data)}
    ELSE LET keys == [i \in 1..Len(data) |->
                         apply_expression(fields[k].expression, dict_merge(c, data[i]))]
             sorted == list_sort(data, keys, fields[k].direction = "DESC")
         IN  UNION {IF o.ok THEN order_by_from(fields, k + 1, o.data, c) ELSE {o} :
                       o \in sorted}

apply_order_by(order_by, data, c) == order_by_from(order_by.fields, 1, data, c)

\* tuple == tuple
key_eq(k1, k2) == \A i \in 1..Len(k1) : py_eq(k1[i], k2[i])

\* A wrong apply_group_by: no pseudo-row when there is no row.
apply_group_by_nothing_when_empty(group_by, data, c) ==
    LET fields == group_by.fields
        key(i) == [f \in 1..Len(fields) |->
                      apply_expression(fields[f], dict_merge(c, data[i]))]
        raised == {i \in 1..Len(data) : \E f \in 1..Len(fields) : IsException(key(i)[f])}
        \* the rows that open a group: no earlier row has an equal key
        first == {i \in 1..Len(data) : \A j \in 1..(i - 1) : ~key_eq(key(j), key(i))}
        members(i) == SubSeqAt(data, {j \in 1..Len(data) : key_eq(key(j), key(i))})
        names == {expression_name(fields[f]) : f \in 1..Len(fields)}
        \* a later field of the same name overwrites an earlier one
        field_of(nm) == CHOOSE f \in 1..Len(fields) :
                            /\ expression_name(fields[f]) = nm
                            /\ \A g \in (f + 1)..Len(fields) : expression_name(fields[g]) # nm
        pseudo_row(rows, k) ==
            [nm \in {GROUPED_ROWS} \cup names |->
                IF nm \in names THEN k[field_of(nm)] ELSE rows]
    IN  IF raised # {}
        THEN LET i == Min(raised)
                 f == Min({g \in 1..Len(fields) : IsException(key(i)[g])})
             IN  Fail(key(i)[f].s)
        ELSE IF Len(data) = 0
        THEN Ok(<<>>)
        ELSE LET order == SubSeqAt([i \in 1..Len(data) |-> i], first)
             IN  Ok([g \in 1..Len(order) |-> pseudo_row(members(order[g]), key(order[g]))])

apply_group_by(group_by, data, c) ==
    LET fields == group_by.fields
        key(i) == [f \in 1..Len(fields) |->
                      apply_expression(fields[f], dict_merge(c, data[i]))]
        raised == {i \in 1..Len(data) : \E f \in 1..Len(fields) : IsException(key(i)[f])}
        \* the rows that open a group: no earlier row has an equal key
        first == {i \in 1..Len(data) : \A j \in 1..(i - 1) : ~key_eq(key(j), key(i))}
        members(i) == SubSeqAt(data, {j \in 1..Len(data) : key_eq(key(j), key(i))})
        names == {expression_name(fields[f]) : f \in 1..Len(fields)}
        \* a later field of the same name overwrites an earlier one
        field_of(nm) == CHOOSE f \in 1..Len(fields) :
                            /\ expression_name(fields[f]) = nm
                            /\ \A g \in (f + 1)..Len(fields) : expression_name(fields[g]) # nm
        pseudo_row(rows, k) ==
            [nm \in {GROUPED_ROWS} \cup names |->
                IF nm \in names THEN k[field_of(nm)] ELSE rows]
    IN  IF raised # {}
        THEN LET i == Min(raised)
                 f == Min({g \in 1..Len(fields) : IsException(key(i)[g])})
             IN  Fail(key(i)[f].s)
        ELSE IF Len(data) = 0
        THEN Ok(<<pseudo_row(data, [f \in 1..Len(fields) |-> PyNone])>>)
        ELSE LET order == SubSeqAt([i \in 1..Len(data) |-> i], first)
             IN  Ok([g \in 1..Len(order) |-> pseudo_row(members(order[g]), key(order[g]))])

apply_limit(limit, data, c) ==
    LET start == limit.offset
        end == start + limit.limit
    IN  Ok(py_slice(data, start, end))

has_implicit_aggregation(fields) ==
    \E i \in 1..Len(fields) :
        /\ fields[i].expression.kind = "FunctionCallExpression"
        /\ is_aggregate_function(fields[i].expression.name)

\* The key of a select field in a projected row: `field_name(field) or
\* field.expression`; the expression object itself is the key of a field
\* whose name is empty.
select_field_key(field) ==
    IF field_name(field) # "" THEN field_name(field) ELSE "<expression object>"

\* A wrong projection: the bucket of all surviving rows replaces the bucket
\* of the row's own group.
apply_select_fields_over_all_rows(fields, data, c) ==
    LET val(r, f) == apply_expression(fields[f].expression,
                         dict_set(dict_merge(c, data[r]), GROUPED_ROWS, data))
        raised == {r \in 1..Len(data) : \E f \in 1..Len(fields) : IsException(val(r, f))}
        keys == {select_field_key(fields[f]) : f \in 1..Len(fields)}
        last(k) == CHOOSE f \in 1..Len(fields) :
                       /\ select_field_key(fields[f]) = k
                       /\ \A g \in (f + 1)..Len(fields) : select_field_key(fields[g]) # k
    IN  IF raised # {}
        THEN LET r == Min(raised)
                 f == Min({g \in 1..Len(fields) : IsException(val(r, g))})
             IN  Fail(val(r, f).s)
        ELSE Ok([r \in 1..Len(data) |-> [k \in keys |-> val(r, last(k))]])

apply_select_fields(fields, data, c) ==
    LET val(r, f) == apply_expression(fields[f].expression,
                         dict_merge(dict_set(c, GROUPED_ROWS, data), data[r]))
        raised == {r \in 1..Len(data) : \E f \in 1..Len(fields) : IsException(val(r, f))}
        keys == {select_field_key(fields[f]) : f \in 1..Len(fields)}
        last(k) == CHOOSE f \in 1..Len(fields) :
                       /\ select_field_key(fields[f]) = k
                       /\ \A g \in (f + 1)..Len(fields) : select_field_key(fields[g]) # k
    IN  IF raised # {}
        THEN LET r == Min(raised)
                 f == Min({g \in 1..Len(fields) : IsException(val(r, g))})
             IN  Fail(val(r, f).s)
        ELSE Ok([r \in 1..Len(data) |-> [k \in keys |-> val(r, last(k))]])

\* A wrong lookup: no table is ever found.
get_table_finds_none(tbls, name) == 0

\* InMemoryTables.get_table: the index of the first table of that name, 0
\* for None.
get_table(tbls, name) ==
    IF \E i \in 1..Len(tbls) : tbls[i].name = name
    THEN Min({i \in 1..Len(tbls) : tbls[i].name = name})
    ELSE 0

\* A wrong join: on merge the left row's value of a shared field is kept.
apply_join_left_wins(join, data, join_data, c) ==
    LET m == Len(join_data)
        pairs == [p \in 1..(Len(data) * m) |->
                     <<data[((p - 1) \div m) + 1], join_data[((p - 1) % m) + 1]>>]
        on(p) == apply_expression(join.on,
                     dict_merge(dict_merge(c, pairs[p][1]), pairs[p][2]))
        raised == {p \in 1..Len(pairs) : IsException(on(p))}
        merged == [p \in 1..Len(pairs) |-> dict_merge(pairs[p][2], pairs[p][1])]
    IN  IF raised # {} THEN Fail(on(Min(raised)).s)
        ELSE Ok(SubSeqAt(merged, {p \in 1..Len(pairs) : py_truthy(on(p))}))

\* One join of apply_from: the merged pairs (row, join_row), row-major, on
\* which the ON expression is truthy.
apply_join(join, data, join_data, c) ==
    LET m == Len(join_data)
        pairs == [p \in 1..(Len(data) * m) |->
                     <<data[((p - 1) \div m) + 1], join_data[((p - 1) % m) + 1]>>]
        on(p) == apply_expression(join.on,
                     dict_merge(dict_merge(c, pairs[p][1]), pairs[p][2]))
        raised == {p \in 1..Len(pairs) : IsException(on(p))}
        merged == [p \in 1..Len(pairs) |-> dict_merge(pairs[p][1], pairs[p][2])]
    IN  IF raised # {} THEN Fail(on(Min(raised)).s)
        ELSE Ok(SubSeqAt(merged, {p \in 1..Len(pairs) : py_truthy(on(p))}))

RECURSIVE joins_from(_, _, _, _, _)
joins_from(joins, k, data, tbls, c) ==
    IF k > Len(joins) THEN Ok(data)
    ELSE IF get_table(tbls, joins[k].table) = 0 THEN Fail("Table not found")
    ELSE LET joined == apply_join(joins[k], data,
                           tbls[get_table(tbls, joins[k].table)].data, c)
         IN  IF joined.ok THEN joins_from(joins, k + 1, joined.data, tbls, c)
             ELSE joined

\* A variant of apply_from whose source without FROM is the empty list.
apply_from_no_source_row(from_part, tbls, c) ==
    IF from_part = None THEN Ok(<<>>)
    ELSE IF get_table(tbls, from_part.table) = 0 THEN Fail("Table not found")
    ELSE joins_from(from_part.join, 1, tbls[get_table(tbls, from_part.table)].data,
                    tbls, c)

apply_from(from_part, tbls, c) ==
    IF from_part = None THEN Ok(<<EmptyDict>>)
    ELSE IF get_table(tbls, from_part.table) = 0 THEN Fail("Table not found")
    ELSE joins_from(from_part.join, 1, tbls[get_table(tbls, from_part.table)].data,
                    tbls, c)

\* Whether the list apply_order_by sorts in place is the row list of the FROM
\* table itself: apply_from returns table.data when there is no join, and
\* only WHERE and the grouping build a new list.
sorts_table_data(sel) ==
    /\ sel.from_part # None
    /\ Len(sel.from_part.join) = 0
    /\ sel.where_part = None
    /\ sel.group_part = None
    /\ ~has_implicit_aggregation(sel.field_parts)

\* A wrong tail of apply_select: the projection first, then LIMIT.
apply_select_tail_projecting_first(sel, ordered, c) ==
    LET projected == IF Len(sel.field_parts) # 0
                     THEN apply_select_fields(sel.field_parts, ordered.data, c)
                     ELSE ordered
    IN  IF sel.limit_part # None /\ projected.ok
        THEN apply_limit(sel.limit_part, projected.data, c)
        ELSE projected

\* apply_select after ORDER BY: LIMIT and the projection.
apply_select_tail(sel, ordered, c) ==
    LET limited == IF sel.limit_part # None
                   THEN apply_limit(sel.limit_part, ordered.data, c)
                   ELSE ordered
    IN  IF Len(sel.field_parts) # 0
        THEN apply_select_fields(sel.field_parts, limited.data, c)
        ELSE limited

\* apply_select from ORDER BY on, given the rows after the grouping: the
\* outcomes [result, tables], one per outcome of the in-place sort.
apply_select_order(sel, tbls, c, grouped) ==
    {[result |-> IF o.ok THEN apply_select_tail(sel, o, c)
                 ELSE [o EXCEPT !.data = <<>>],
      tables |-> IF sel.order_part # None /\ grouped.ok /\ sorts_table_data(sel)
                 THEN [tbls EXCEPT ![get_table(tbls, sel.from_part.table)].data = o.data]
                 ELSE tbls] :
        o \in IF grouped.ok /\ sel.order_part # None
              THEN apply_order_by(sel.order_part, grouped.data, c)
              ELSE {grouped}}

\* apply_select from the grouping on, given the rows after WHERE.
apply_select_group(sel, tbls, c, filtered) ==
    apply_select_order(sel, tbls, c,
        IF ~filtered.ok THEN filtered
        ELSE IF sel.group_part # None
        THEN apply_group_by(sel.group_part, filtered.data, c)
        ELSE IF has_implicit_aggregation(sel.field_parts)
        THEN apply_group_by(GroupBy(<<>>), filtered.data, c)
        ELSE filtered)

\* apply_select from WHERE on, given the rows of apply_from.
apply_select_where(sel, tbls, c, from) ==
    apply_select_group(sel, tbls, c,
        IF from.ok /\ sel.where_part # None
        THEN apply_where(sel.where_part, from.data, c)
        ELSE from)

\* apply_select: its possible outcomes [result, tables], result being what
\* it returns (or raises) and tables the snapshot it leaves.
apply_select(sel, tbls, c) ==
    apply_select_where(sel, tbls, c, apply_from(sel.from_part, tbls, c))

-----------------------------------------------------------------------------
(* tables.py: the in-memory snapshot the queries run against               *)

Column(nm, ty, pk, fk, df) ==
    [name |-> nm, type |-> ty, is_primary_key |-> pk, foreign_key |-> fk, default |-> df]
Table(nm, cols, rows) == [name |-> nm, columns |-> cols, data |-> rows]

\* InMemoryTables(tables=[]).
NoTables == <<>>

-----------------------------------------------------------------------------
(* tables.py: columns, and their JSON form in the schema files             *)

\* A member of the enum ColumnType; v is its value.
ColumnType(v) == [type |-> "ColumnType", n |-> 0, d |-> 1, s |-> v]

ColumnTypeValues == {"int", "string", "float", "bool", "null", "unknown"}

\* ColumnType.from_value: bool is tested before int.
from_value(v) ==
    CASE v.type = "bool" -> ColumnType("bool")
      [] v.type = "int" -> ColumnType("int")
      [] v.type = "str" -> ColumnType("string")
      [] v.type = "float" -> ColumnType("float")
      [] v.type = "NoneType" -> ColumnType("null")
      [] OTHER -> ColumnType("unknown")

ForeignKey(tb, col) == [table |-> tb, column |-> col]

\* Column.__eq__: the default is not compared.
Column_eq(a, b) ==
    /\ a.name = b.name
    /\ a.type = b.type
    /\ a.is_primary_key = b.is_primary_key
    /\ a.foreign_key = b.foreign_key

\* json.dumps of a scalar: the JSON literal, by its kind.
json_dumps(v) ==
    CASE v.type = "NoneType" -> [j |-> "null", n |-> 0, d |-> 1, s |-> ""]
      [] v.type = "bool" ->
            [j |-> IF v.n = 1 THEN "true" ELSE "false", n |-> 0, d |-> 1, s |-> ""]
      [] v.type = "int" -> [j |-> "integer", n |-> v.n, d |-> 1, s |-> ""]
      [] v.type = "float" -> [j |-> "fraction", n |-> v.n, d |-> v.d, s |-> ""]
      [] v.type = "str" -> [j |-> "string", n |-> 0, d |-> 1, s |-> v.s]

\* json.loads of a scalar literal.
json_loads(js) ==
    CASE js.j = "null" -> PyNone
      [] js.j = "true" -> PyBool(TRUE)
      [] js.j = "false" -> PyBool(FALSE)
      [] js.j = "integer" -> PyInt(js.n)
      [] js.j = "fraction" -> PyFloat(js.n, js.d)
      [] js.j = "string" -> PyStr(js.s)

\* A row (a flat dict) as a JSON object and back.
json_dumps_row(row) == [k \in DOMAIN row |-> json_dumps(row[k])]
json_loads_row(obj) == [k \in DOMAIN obj |-> json_loads(obj[k])]

json_dumps_rows(rows) == [i \in 1..Len(rows) |-> json_dumps_row(rows[i])]
json_loads_rows(text) == [i \in 1..Len(text) |-> json_loads_row(text[i])]

\* Column.to_dict followed by json.dumps: the key foreign_key is written only
\* for a column that has one.
to_dict(col) ==
    LET col_dict == [k \in {"name", "type", "is_primary_key", "default"} |->
                      CASE k = "name" -> json_dumps(PyStr(col.name))
                        [] k = "type" -> json_dumps(PyStr(col.type.s))
                        [] k = "is_primary_key" -> json_dumps(PyBool(col.is_primary_key))
                        [] k = "default" -> json_dumps(col.default)]
    IN  IF col.foreign_key # None
        THEN [k \in DOMAIN col_dict \cup {"foreign_key"} |->
                 IF k = "foreign_key"
                 THEN [f \in {"table", "column"} |->
                          IF f = "table" THEN json_dumps(PyStr(col.foreign_key.table))
                          ELSE json_dumps(PyStr(col.foreign_key.column))]
                 ELSE col_dict[k]]
        ELSE col_dict

\* json.loads followed by Column.from_dict; ColumnType(name) raises ValueError
\* for a string that is no member's value.
from_dict(data) ==
    IF json_loads(data["type"]).s \notin ColumnTypeValues
    THEN Raise("ValueError")
    ELSE Column(json_loads(data["name"]).s,
                ColumnType(json_loads(data["type"]).s),
                is_True(json_loads(data["is_primary_key"])),
                IF "foreign_key" \in DOMAIN data
                THEN ForeignKey(json_loads(data["foreign_key"]["table"]).s,
                                json_loads(data["foreign_key"]["column"]).s)
                ELSE None,
                json_loads(data["default"]))

columns_to_dicts(columns) == [i \in 1..Len(columns) |-> to_dict(columns[i])]
columns_from_dicts(dicts) == [i \in 1..Len(dicts) |-> from_dict(dicts[i])]

\* Table.get_column: the index of the first column of that name, 0 for None.
get_column(table, name) ==
    LET hits == {i \in 1..Len(table.columns) : table.columns[i].name = name}
    IN  IF hits = {} THEN 0 ELSE Min(hits)

\* What a store operation returns or raises.
Returned(v) == [ok |-> TRUE, value |-> v, error |-> ""]
Raised(kind) == [ok |-> FALSE, value |-> None, error |-> kind]
Outcome(s, r) == [store |-> s, ret |-> r]

dict_del(a, key) == [k \in DOMAIN a \ {key} |-> a[k]]

-----------------------------------------------------------------------------
(* tables.py: FileSystemJsonTables and FileSystemJsonLTables.  A store is  *)
(* [kind, files]: kind is "json" or "jsonl", files maps a file name of the *)
(* work directory to its content.  The content of a data file is the list  *)
(* of its rows as JSON objects (one array, or one object per line); the    *)
(* content of __schema__.json is an object table name -> column list, that *)
(* of __schema__.jsonl a list of entries [table_name, columns].  The two   *)
(* classes share every method that differs only in the file format.        *)

table_path(kind, name) == IF kind = "json" THEN name \o ".json" ELSE name \o ".jsonl"
metadata_path(kind) == IF kind = "json" THEN "__schema__.json" ELSE "__schema__.jsonl"

\* path.exists()
exists(s, path) == path \in DOMAIN s.files

write_text(s, path, text) == [s EXCEPT !.files = dict_set(s.files, path, text)]

\* The schema file is created empty when the directory has none.
_ensure_metadata_table(s) ==
    IF exists(s, metadata_path(s.kind)) THEN s
    ELSE write_text(s, metadata_path(s.kind), IF s.kind = "json" THEN EmptyDict ELSE <<>>)

FileSystemJsonTables(workdir) == _ensure_metadata_table([kind |-> "json", files |-> workdir])
FileSystemJsonLTables(workdir) == _ensure_metadata_table([kind |-> "jsonl", files |-> workdir])

\* The JSON-Lines schema entries of tables other than table_name, in order.
other_entries(entries, table_name) ==
    SubSeqAt(entries, {i \in 1..Len(entries) : entries[i].table_name # table_name})

\* The columns recorded for table_name; [] when there is no record.
_get_table_metadata(s, table_name) ==
    LET metadata == s.files[metadata_path(s.kind)]
    IN  IF s.kind = "json"
        THEN IF table_name \in DOMAIN metadata
             THEN columns_from_dicts(metadata[table_name]) ELSE <<>>
        ELSE LET hits == {i \in 1..Len(metadata) : metadata[i].table_name = table_name}
             IN  IF hits = {} THEN <<>>
                 ELSE columns_from_dicts(metadata[Min(hits)].columns)

_save_table_metadata(s, table_name, columns) ==
    LET metadata == s.files[metadata_path(s.kind)]
    IN  IF s.kind = "json"
        THEN write_text(s, metadata_path(s.kind),
                 dict_set(metadata, table_name, columns_to_dicts(columns)))
        ELSE write_text(s, metadata_path(s.kind),
                 Append(other_entries(metadata, table_name),
                        [table_name |-> table_name, columns |-> columns_to_dicts(columns)]))

_remove_table_metadata(s, table_name) ==
    LET metadata == s.files[metadata_path(s.kind)]
    IN  IF s.kind = "json"
        THEN write_text(s, metadata_path(s.kind), dict_del(metadata, table_name))
        ELSE write_text(s, metadata_path(s.kind), other_entries(metadata, table_name))

\* The rows of a data file (none when there is no file: every method tests
\* that first), and the data file rewritten with rows.
read_rows(s, name) ==
    IF exists(s, table_path(s.kind, name))
    THEN json_loads_rows(s.files[table_path(s.kind, name)]) ELSE <<>>
write_rows(s, name, rows) == write_text(s, table_path(s.kind, name), json_dumps_rows(rows))

\* The orders in which list(a_set) can enumerate a set.
list_of_set(S) ==
    {q \in [1..Cardinality(S) -> S] : \A e \in S : \E i \in 1..Cardinality(S) : q[i] = e}

\* The columns get_table infers from the rows: one per key, typed by the
\* value of the first row that has the key.
inferred_columns(rows) ==
    {Column(key, from_value(rows[Min({i \in 1..Len(rows) : key \in DOMAIN rows[i]})][key]),
            FALSE, None, PyNone) :
        key \in UNION {DOMAIN rows[i] : i \in 1..Len(rows)}}

\* The methods below take, besides their arguments, what they read from the
\* files before they write: columns is _get_table_metadata(table), rows is
\* the content of the data file.

\* get_table: a table without recorded columns gets inferred ones, which are
\* saved; a set has no order, so the inferred list can come in any order.
Fs_get_table(s, name, columns, rows) ==
    IF ~exists(s, table_path(s.kind, name))
    THEN {Outcome(s, Raised("FileNotFoundError"))}
    ELSE IF columns # <<>>
    THEN {Outcome(s, Returned(Table(name, columns, rows)))}
    ELSE {Outcome(_save_table_metadata(s, name, inferred),
                  Returned(Table(name, inferred, rows))) :
             inferred \in list_of_set(inferred_columns(rows))}

Fs_add_table(s, table) ==
    IF exists(s, table_path(s.kind, table.name))
    THEN Outcome(s, Raised("ValueError: already exists"))
    ELSE Outcome(_save_table_metadata(write_rows(s, table.name, table.data),
                                      table.name, table.columns),
                 Returned(None))

unlink(s, path) == [s EXCEPT !.files = dict_del(s.files, path)]

Fs_remove_table(s, name) ==
    IF ~exists(s, table_path(s.kind, name))
    THEN Outcome(s, Raised("FileNotFoundError"))
    ELSE Outcome(_remove_table_metadata(unlink(s, table_path(s.kind, name)), name),
                 Returned(None))

\* path.rename(new_path)
rename(s, old_path, new_path) ==
    [s EXCEPT !.files = dict_set(dict_del(s.files, old_path), new_path, s.files[old_path])]

\* A wrong rename_table: the columns are not recorded under the new name.
Fs_rename_table_dropping_columns(s, old_name, new_name, columns) ==
    IF ~exists(s, table_path(s.kind, old_name))
    THEN Outcome(s, Raised("FileNotFoundError"))
    ELSE IF exists(s, table_path(s.kind, new_name))
    THEN Outcome(s, Raised("ValueError: already exists"))
    ELSE Outcome(_remove_table_metadata(
                     rename(s, table_path(s.kind, old_name), table_path(s.kind, new_name)),
                     old_name),
                 Returned(None))

Fs_rename_table(s, old_name, new_name, columns) ==
    IF ~exists(s, table_path(s.kind, old_name))
    THEN Outcome(s, Raised("FileNotFoundError"))
    ELSE IF exists(s, table_path(s.kind, new_name))
    THEN Outcome(s, Raised("ValueError: already exists"))
    ELSE Outcome(_save_table_metadata(
                     _remove_table_metadata(
                         rename(s, table_path(s.kind, old_name), table_path(s.kind, new_name)),
                         old_name),
                     new_name, columns),
                 Returned(None))

has_column(columns, column_name) == \E i \in 1..Len(columns) : columns[i].name = column_name

Fs_add_column(s, table_name, column, columns, rows) ==
    IF ~exists(s, table_path(s.kind, table_name))
    THEN Outcome(s, Raised("FileNotFoundError"))
    ELSE IF has_column(columns, column.name)
    THEN Outcome(s, Raised("ValueError: column already exists"))
    ELSE Outcome(_save_table_metadata(
                     write_rows(s, table_name,
                         [i \in 1..Len(rows) |-> dict_set(rows[i], column.name, column.default)]),
                     table_name, Append(columns, column)),
                 Returned(None))

\* The columns whose name is not column_name, in order.
columns_not_named(columns, column_name) ==
    SubSeqAt(columns, {i \in 1..Len(columns) : columns[i].name # column_name})

Fs_remove_column(s, table_name, column_name, columns, rows) ==
    IF ~exists(s, table_path(s.kind, table_name))
    THEN Outcome(s, Raised("FileNotFoundError"))
    ELSE Outcome(_save_table_metadata(
                     write_rows(s, table_name,
                         [i \in 1..Len(rows) |-> dict_del(rows[i], column_name)]),
                     table_name, columns_not_named(columns, column_name)),
                 Returned(None))

\* row[new_name] = row.pop(old_name) on a row that has old_name.
rename_key(row, old_name, new_name) ==
    IF old_name \in DOMAIN row
    THEN dict_set(dict_del(row, old_name), new_name, row[old_name])
    ELSE row

\* Every column named old_name gets the name new_name.
rename_in_columns(columns, old_name, new_name) ==
    [i \in 1..Len(columns) |->
        IF columns[i].name = old_name THEN [columns[i] EXCEPT !.name = new_name]
        ELSE columns[i]]

Fs_rename_column(s, table_name, old_name, new_name, columns, rows) ==
    IF ~exists(s, table_path(s.kind, table_name))
    THEN Outcome(s, Raised("FileNotFoundError"))
    ELSE Outcome(_save_table_metadata(
                     write_rows(s, table_name,
                         [i \in 1..Len(rows) |-> rename_key(rows[i], old_name, new_name)]),
                     table_name, rename_in_columns(columns, old_name, new_name)),
                 Returned(None))

\* The type of the first column of that name is set (for ... break / else).
retype_in_columns(columns, column_name, new_type) ==
    [i \in 1..Len(columns) |->
        IF i = Min({j \in 1..Len(columns) : columns[j].name = column_name})
        THEN [columns[i] EXCEPT !.type = new_type] ELSE columns[i]]

\* change_column_type reads and writes the schema file only.
Fs_change_column_type(s, table_name, column_name, new_type, columns) ==
    IF ~has_column(columns, column_name)
    THEN Outcome(s, Raised("ValueError: column not found"))
    ELSE Outcome(_save_table_metadata(s, table_name,
                     retype_in_columns(columns, column_name, new_type)),
                 Returned(None))

\* list[idx] of Python: the position (from 1) a valid index denotes, 0 for
\* an index out of range; a negative index counts from the end.
py_index(len, idx) ==
    IF 0 <= idx /\ idx < len THEN idx + 1
    ELSE IF -len <= idx /\ idx < 0 THEN len + idx + 1
    ELSE 0

\* A wrong update: the row at position pos is replaced by changes.
update_at_replacing(rows, pos, changes) ==
    [i \in 1..Len(rows) |-> IF i = pos THEN changes ELSE rows[i]]

\* rows with dict.update(changes) applied to the row at position pos.
update_at(rows, pos, changes) ==
    [i \in 1..Len(rows) |-> IF i = pos THEN dict_merge(rows[i], changes) ELSE rows[i]]

\* rows without the row at position pos (del rows[idx]).
delete_at(rows, pos) == SubSeqAt(rows, (1..Len(rows)) \ {pos})

\* sorted(idxs, reverse=True)
sorted_reverse(idxs) ==
    CHOOSE q \in Permutations_of(idxs) : \A i, j \in 1..Len(q) : i < j => q[i] >= q[j]

\* [row for i, row in enumerate(rows) if i not in idxs]
rows_not_in(rows, idxs) ==
    SubSeqAt(rows, {i \in 1..Len(rows) : \A k \in 1..Len(idxs) : idxs[k] # i - 1})

\* A wrong insert: the rows are written back without the new row.
Json_insert_without_row(s, table_name, row, rows) ==
    IF ~exists(s, table_path(s.kind, table_name))
    THEN Outcome(s, Raised("FileNotFoundError"))
    ELSE Outcome(write_rows(s, table_name, rows), Returned(None))

Json_insert(s, table_name, row, rows) ==
    IF ~exists(s, table_path(s.kind, table_name))
    THEN Outcome(s, Raised("FileNotFoundError"))
    ELSE Outcome(write_rows(s, table_name, Append(rows, row)), Returned(None))

\* open("a") creates the file when there is none, and appends one line.
JsonL_insert(s, table_name, row) ==
    Outcome(write_text(s, table_path(s.kind, table_name),
                IF exists(s, table_path(s.kind, table_name))
                THEN Append(s.files[table_path(s.kind, table_name)], json_dumps_row(row))
                ELSE <<json_dumps_row(row)>>),
            Returned(None))

Json_update(s, table_name, idx, changes, rows) ==
    IF ~exists(s, table_path(s.kind, table_name))
    THEN Outcome(s, Raised("FileNotFoundError"))
    ELSE IF idx < 0 \/ idx >= Len(rows)
    THEN Outcome(s, Raised("IndexError"))
    ELSE Outcome(write_rows(s, table_name, update_at(rows, idx + 1, changes)),
                 Returned(None))

\* The row of line idx is changed while the lines are read; the range test
\* follows the reading and precedes the writing.
JsonL_update(s, table_name, idx, changes, rows) ==
    IF ~exists(s, table_path(s.kind, table_name))
    THEN Outcome(s, Raised("FileNotFoundError"))
    ELSE IF idx < 0 \/ idx >= Len(update_at(rows, idx + 1, changes))
    THEN Outcome(s, Raised("IndexError"))
    ELSE Outcome(write_rows(s, table_name, update_at(rows, idx + 1, changes)),
                 Returned(None))

\* The loop of delete over the sorted indices: each index is tested against
\* the rows that are left, then its row is deleted.  An exception is the
\* outcome when a test fails.
RECURSIVE delete_each(_, _)
delete_each(rows, idxs) ==
    IF idxs = <<>> THEN Ok(rows)
    ELSE IF Head(idxs) < 0 \/ Head(idxs) >= Len(rows) THEN Fail("IndexError")
    ELSE delete_each(delete_at(rows, Head(idxs) + 1), Tail(idxs))

\* deleted is delete_each(rows, sorted(idxs, reverse=True)).
Json_delete(s, table_name, deleted) ==
    IF ~exists(s, table_path(s.kind, table_name))
    THEN Outcome(s, Raised("FileNotFoundError"))
    ELSE IF ~deleted.ok
    THEN Outcome(s, Raised("IndexError"))
    ELSE Outcome(write_rows(s, table_name, deleted.data), Returned(None))

\* The lines whose number is not in idxs are kept; no index is tested.
JsonL_delete(s, table_name, idxs, rows) ==
    IF ~exists(s, table_path(s.kind, table_name))
    THEN Outcome(s, Raised("FileNotFoundError"))
    ELSE Outcome(write_rows(s, table_name, rows_not_in(rows, idxs)), Returned(None))

\* A call is a record [op, ...arguments].  The method of a file-backed store
\* it invokes, as the set of its possible outcomes; columns and rows are what
\* the method reads of the table before it writes.
Fs_method(s, c, columns, rows) ==
    CASE c.op = "get_table" -> Fs_get_table(s, c.name, columns, rows)
      [] c.op = "add_table" -> {Fs_add_table(s, c.table)}
      [] c.op = "remove_table" -> {Fs_remove_table(s, c.name)}
      [] c.op = "rename_table" -> {Fs_rename_table(s, c.name, c.new_name, columns)}
      [] c.op = "add_column" -> {Fs_add_column(s, c.name, c.column, columns, rows)}
      [] c.op = "remove_column" ->
            {Fs_remove_column(s, c.name, c.column_name, columns, rows)}
      [] c.op = "rename_column" ->
            {Fs_rename_column(s, c.name, c.column_name, c.new_name, columns, rows)}
      [] c.op = "change_column_type" ->
            {Fs_change_column_type(s, c.name, c.column_name, c.new_type, columns)}
      [] c.op = "insert" ->
            {IF s.kind = "json" THEN Json_insert(s, c.name, c.row, rows)
             ELSE JsonL_insert(s, c.name, c.row)}
      [] c.op = "update" ->
            {IF s.kind = "json" THEN Json_update(s, c.name, c.idx, c.changes, rows)
             ELSE JsonL_update(s, c.name, c.idx, c.changes, rows)}
      [] c.op = "delete" ->
            {IF s.kind = "json"
             THEN Json_delete(s, c.name, delete_each(rows, sorted_reverse(c.idxs)))
             ELSE JsonL_delete(s, c.name, c.idxs, rows)}

\* The table a call names.
called_table(c) == IF c.op = "add_table" THEN c.table.name ELSE c.name

Fs_call(s, c) ==
    Fs_method(s, c, _get_table_metadata(s, called_table(c)), read_rows(s, called_table(c)))

-----------------------------------------------------------------------------
(* tables.py: InMemoryTables.  A list of tables, [kind, tables]; the       *)
(* methods work on the first table of the given name.                      *)

InMemoryTables(tbls) == [kind |-> "memory", tables |-> tbls]

\* The list with the table at position i replaced.
with_table(tbls, i, table) == [k \in 1..Len(tbls) |-> IF k = i THEN table ELSE tbls[k]]

\* The tables whose name is not name, in order.
tables_not_named(tbls, name) == SubSeqAt(tbls, {i \in 1..Len(tbls) : tbls[i].name # name})

\* A wrong in-memory rename_column: it also moves the values of the rows to
\* the new key, as the file-backed stores do.
InMemory_rename_column_moving_keys(table, old_name, new_name) ==
    [table EXCEPT !.columns[get_column(table, old_name)].name = new_name,
                  !.data = [r \in 1..Len(table.data) |->
                               rename_key(table.data[r], old_name, new_name)]]

\* InMemoryTables.rename_column on a table that has the column:
\* column.name = new_name on the first column of that name.
InMemory_rename_column(table, old_name, new_name) ==
    [table EXCEPT !.columns[get_column(table, old_name)].name = new_name]

InMemory_call(s, c) ==
    LET i == get_table(s.tables, called_table(c))
        table == s.tables[i]
        put(t) == [s EXCEPT !.tables = with_table(s.tables, i, t)]
    IN  CASE c.op = "get_table" ->
                Outcome(s, Returned(IF i = 0 THEN None ELSE table))
          [] c.op = "add_table" ->
                IF i # 0 THEN Outcome(s, Raised("ValueError: already exists"))
                ELSE Outcome([s EXCEPT !.tables = Append(s.tables, c.table)], Returned(None))
          [] c.op = "remove_table" ->
                Outcome([s EXCEPT !.tables = tables_not_named(s.tables, c.name)],
                        Returned(None))
          [] c.op = "rename_table" ->
                IF i = 0 THEN Outcome(s, Raised("ValueError: not found"))
                ELSE IF get_table(s.tables, c.new_name) # 0
                THEN Outcome(s, Raised("ValueError: already exists"))
                ELSE Outcome(put([table EXCEPT !.name = c.new_name]), Returned(None))
          [] c.op = "add_column" ->
                IF i = 0 THEN Outcome(s, Raised("ValueError: not found"))
                ELSE IF get_column(table, c.column.name) # 0
                THEN Outcome(s, Raised("ValueError: column already exists"))
                ELSE Outcome(put([table EXCEPT !.columns = Append(table.columns, c.column)]),
                             Returned(None))
          [] c.op = "remove_column" ->
                IF i = 0 THEN Outcome(s, Raised("ValueError: not found"))
                ELSE Outcome(put([table EXCEPT !.columns =
                                     columns_not_named(table.columns, c.column_name)]),
                             Returned(None))
          [] c.op = "rename_column" ->
                IF i = 0 THEN Outcome(s, Raised("ValueError: not found"))
                ELSE IF get_column(table, c.column_name) = 0
                THEN Outcome(s, Raised("ValueError: column not found"))
                ELSE Outcome(put(InMemory_rename_column(table, c.column_name, c.new_name)),
                             Returned(None))
          [] c.op = "change_column_type" ->
                IF i = 0 THEN Outcome(s, Raised("ValueError: not found"))
                ELSE IF get_column(table, c.column_name) = 0
                THEN Outcome(s, Raised("ValueError: column not found"))
                ELSE Outcome(put([table EXCEPT
                                     !.columns[get_column(table, c.column_name)].type =
                                         c.new_type]),
                             Returned(None))
          [] c.op = "insert" ->
                IF i = 0 THEN Outcome(s, Raised("ValueError: not found"))
                ELSE Outcome(put([table EXCEPT !.data = Append(table.data, c.row)]),
                             Returned(None))
          [] c.op = "update" ->
                IF i = 0 THEN Outcome(s, Raised("AttributeError"))
                ELSE IF py_index(Len(table.data), c.idx) = 0
                THEN Outcome(s, Raised("IndexError"))
                ELSE Outcome(put([table EXCEPT !.data =
                                     update_at(table.data, py_index(Len(table.data), c.idx),
                                               c.changes)]),
                             Returned(None))
          [] c.op = "delete" ->
                IF i = 0 THEN Outcome(s, Raised("ValueError: not found"))
                ELSE Outcome(put([table EXCEPT !.data = rows_not_in(table.data, c.idxs)]),
                             Returned(None))

\* A call on a store that is not an overlay.
Snapshot_call(s, c) ==
    IF s.kind = "memory" THEN {InMemory_call(s, c)} ELSE Fs_call(s, c)

-----------------------------------------------------------------------------
(* tables.py: ExtendedTables.  [kind, snapshot, extra_tables]: a store and *)
(* a list of overlay tables.                                               *)

ExtendedTables(snapshot, tbls) ==
    [kind |-> "extended", snapshot |-> snapshot, extra_tables |-> tbls]

\* The loop of delete on an overlay table: an index out of the range of the
\* rows that are left is skipped.
RECURSIVE delete_in_range(_, _)
delete_in_range(rows, idxs) ==
    IF idxs = <<>> THEN rows
    ELSE IF 0 <= Head(idxs) /\ Head(idxs) < Len(rows)
    THEN delete_in_range(delete_at(rows, Head(idxs) + 1), Tail(idxs))
    ELSE delete_in_range(rows, Tail(idxs))

\* The mutating methods work on the first overlay table of the given name;
\* add_table and remove_table work on the overlay list.
Extended_overlay(s, c) ==
    LET i == get_table(s.extra_tables, called_table(c))
        table == s.extra_tables[i]
        put(t) == Outcome([s EXCEPT !.extra_tables = with_table(s.extra_tables, i, t)],
                          Returned(None))
        \* change_column_type: the first overlay table of that name that has
        \* the column.
        typed == Min({k \in 1..Len(s.extra_tables) :
                         /\ s.extra_tables[k].name = c.name
                         /\ get_column(s.extra_tables[k], c.column_name) # 0})
    IN  CASE c.op = "add_table" ->
                Outcome([s EXCEPT !.extra_tables = Append(s.extra_tables, c.table)],
                        Returned(None))
          [] c.op = "remove_table" ->
                Outcome([s EXCEPT !.extra_tables = tables_not_named(s.extra_tables, c.name)],
                        Returned(None))
          [] c.op = "rename_table" -> put([table EXCEPT !.name = c.new_name])
          [] c.op = "add_column" ->
                put([table EXCEPT
                        !.columns = Append(table.columns, c.column),
                        !.data = [r \in 1..Len(table.data) |->
                                     dict_set(table.data[r], c.column.name, c.column.default)]])
          [] c.op = "remove_column" ->
                put([table EXCEPT
                        !.columns = columns_not_named(table.columns, c.column_name),
                        !.data = [r \in 1..Len(table.data) |->
                                     dict_del(table.data[r], c.column_name)]])
          [] c.op = "rename_column" ->
                put([table EXCEPT
                        !.columns = [k \in 1..Len(table.columns) |->
                                        IF k = get_column(table, c.column_name)
                                        THEN [table.columns[k] EXCEPT !.name = c.new_name]
                                        ELSE table.columns[k]],
                        !.data = [r \in 1..Len(table.data) |->
                                     rename_key(table.data[r], c.column_name, c.new_name)]])
          [] c.op = "change_column_type" ->
                Outcome([s EXCEPT
                            !.extra_tables[typed].columns[
                                get_column(s.extra_tables[typed], c.column_name)
                            ].type = c.new_type],
                        Returned(None))
          [] c.op = "insert" -> put([table EXCEPT !.data = Append(table.data, c.row)])
          [] c.op = "update" ->
                IF py_index(Len(table.data), c.idx) = 0
                THEN Outcome(s, Raised("IndexError"))
                ELSE put([table EXCEPT !.data =
                             update_at(table.data, py_index(Len(table.data), c.idx),
                                       c.changes)])
          [] c.op = "delete" ->
                put([table EXCEPT !.data =
                        delete_in_range(table.data, sorted_reverse(c.idxs))])

\* The overlay answers the call itself: add_table and remove_table always,
\* get_table never, the other methods when the overlay has the table (and,
\* for change_column_type, the column).
in_overlay(s, c) ==
    CASE c.op \in {"add_table", "remove_table"} -> TRUE
      [] c.op = "get_table" -> FALSE
      [] c.op = "change_column_type" ->
            \E k \in 1..Len(s.extra_tables) :
                /\ s.extra_tables[k].name = c.name
                /\ get_column(s.extra_tables[k], c.column_name) # 0
      [] OTHER -> get_table(s.extra_tables, c.name) # 0

\* The call was handed to the snapshot, with outcome o: that is the outcome
\* (an exception of the snapshot included), except that get_table looks
\* into the overlay when the snapshot returned None.
from_snapshot(s, c, o) ==
    IF c.op = "get_table" /\ o.ret.ok /\ o.ret.value = None
          /\ get_table(s.extra_tables, c.name) # 0
    THEN Outcome([s EXCEPT !.snapshot = o.store],
                 Returned(s.extra_tables[get_table(s.extra_tables, c.name)]))
    ELSE Outcome([s EXCEPT !.snapshot = o.store], o.ret)

Extended_call(s, c) ==
    IF in_overlay(s, c) THEN {Extended_overlay(s, c)}
    ELSE {from_snapshot(s, c, o) : o \in Snapshot_call(s.snapshot, c)}

\* A method call on any store: the set of its possible outcomes.
store_call(s, c) ==
    IF s.kind = "extended" THEN Extended_call(s, c) ELSE Snapshot_call(s, c)

-----------------------------------------------------------------------------
(* The inputs the model runs over                                          *)

SeqsUpTo(S, n) == UNION {[1..k -> S] : k \in 0..n}

Row(v) == [k \in {"foo"} |-> v]

\* Rows of an int column (a row may lack the key), of a bool column and of a
\* text column; None is a null.
IntRows == {Row(PyInt(1)), Row(PyInt(2)), Row(PyNone), EmptyDict}
BoolRows == {Row(PyBool(TRUE)), Row(PyBool(FALSE)), Row(PyNone)}
StrRows == {Row(PyStr("a")), Row(PyStr("B")), Row(PyNone)}

Snapshots ==
    {<<Table("bar", <<Column("foo", PyStr("int"), FALSE, None, PyNone)>>, d)>> : d \in SeqsUpTo(IntRows, MaxRows)}
    \cup {<<Table("bar", <<Column("foo", PyStr("bool"), FALSE, None, PyNone)>>, d)>> : d \in SeqsUpTo(BoolRows, MaxRows)}
    \cup {<<Table("bar", <<Column("foo", PyStr("text"), FALSE, None, PyNone)>>, d)>> : d \in SeqsUpTo(StrRows, MaxRows)}

\* The twelve aggregate functions of the query language.
AggregateNames ==
    {"count", "sum", "avg", "min", "max", "every", "bool_and", "bool_or",
     "bit_and", "bit_or", "array_agg", "string_agg"}

Foo == NameExpression("foo")
X == NameExpression("x")
OnePlusOne == PlusExpression(IntExpression(1), IntExpression(1))
Field(e) == SelectField(e, PyNone)

\* <name>(foo), and string_agg(foo, ',').
AggregateCall(nm) ==
    IF nm = "string_agg"
    THEN FunctionCallExpression(nm, <<Foo, StringExpression(",")>>)
    ELSE FunctionCallExpression(nm, <<Foo>>)

CountStar == FunctionCallExpression("count", <<WildcardExpression>>)

\* Select lists of the queries with a FROM clause.
FromFieldLists ==
    {<<Field(AggregateCall(nm))>> : nm \in AggregateNames}
    \cup {<<Field(CountStar)>>,
          <<Field(FunctionCallExpression("COUNT", <<Foo>>))>>,
          <<SelectField(CountStar, PyStr("n")), SelectField(AggregateCall("count"), PyStr("m"))>>,
          <<>>,
          <<Field(Foo)>>,
          <<SelectField(Foo, PyStr("a")), Field(OnePlusOne)>>,
          <<Field(FunctionCallExpression("lower", <<Foo>>))>>}

FromWheres == {None, Where(NotEqualExpression(Foo, IntExpression(2))), Where(Foo)}
FromOrders == {None, OrderBy(<<OrderField(Foo, "ASC")>>)}
FromLimits == {None, Limit(1, 1)}

\* SELECT foo, count(all rows) AS n, count(foo) AS m ... GROUP BY foo
GroupedCounts ==
    <<Field(Foo), SelectField(CountStar, PyStr("n")),
      SelectField(AggregateCall("count"), PyStr("m"))>>

FromQueries ==
    {Select(fs, From("bar", <<>>), wh, None, ord, lim) :
        fs \in FromFieldLists, wh \in FromWheres, ord \in FromOrders, lim \in FromLimits}
    \cup {Select(GroupedCounts, From("bar", <<>>), wh, GroupBy(<<Foo>>), None, None) :
              wh \in FromWheres}

\* Select lists, predicates and clauses of the queries without FROM; x is a
\* variable of the base context.
NoFromFieldLists ==
    {<<Field(OnePlusOne)>>,
     <<SelectField(OnePlusOne, PyStr("a"))>>,
     <<Field(X), SelectField(X, PyStr("a")), Field(OnePlusOne)>>,
     <<Field(CountStar)>>,
     <<Field(FunctionCallExpression("upper", <<StringExpression("a")>>))>>,
     <<Field(DivideExpression(IntExpression(1), IntExpression(0)))>>,
     <<Field(WildcardExpression)>>,
     <<>>}

NoFromWheres ==
    {None, Where(NameExpression("true")), Where(NameExpression("FALSE")),
     Where(EqualExpression(IntExpression(1), IntExpression(2))),
     Where(IntExpression(1)), Where(EqualExpression(X, IntExpression(5)))}
NoFromGroups == {None, GroupBy(<<X>>)}
NoFromOrders == {None, OrderBy(<<OrderField(X, "ASC")>>), OrderBy(<<OrderField(X, "DESC")>>)}
NoFromLimits == {None} \cup {Limit(l, o) : l \in 0..2, o \in 0..1}

NoFromQueries ==
    {Select(fs, None, wh, gr, ord, lim) :
        fs \in NoFromFieldLists, wh \in NoFromWheres, gr \in NoFromGroups,
        ord \in NoFromOrders, lim \in NoFromLimits}

Contexts == {EmptyDict, [k \in {"x"} |-> PyInt(5)]}

-----------------------------------------------------------------------------
(* Spec: one call of apply_select on a query and a snapshot                *)

\* A query without FROM never reads the snapshot: it runs on the empty one.
Init ==
    /\ \/ select \in NoFromQueries /\ tables = NoTables /\ ctx \in Contexts
       \/ select \in FromQueries /\ tables \in Snapshots /\ ctx = EmptyDict
    /\ result = None
    /\ pc = "ready"
    /\ expression = None
    /\ value = None
    /\ store = None /\ prior = None /\ call = None /\ ret = None /\ procs = None

ApplySelect ==
    /\ pc = "ready"
    /\ \E o \in apply_select(select, tables, ctx) :
          /\ result' = o.result
          /\ tables' = o.tables
    /\ pc' = "done"
    /\ UNCHANGED <<select, ctx, expression, value, store, prior, call, ret, procs>>

Next == ApplySelect

Spec == Init /\ [][Next]_vars

-----------------------------------------------------------------------------
(* SpecExpr: one call of apply_expression on an expression and a context   *)

ExprLeaves ==
    {IntExpression(0), IntExpression(2), FloatExpression(0, 1), FloatExpression(3, 2),
     StringExpression("a"), NameExpression("true"), NameExpression("FALSE"), X}

InnerLeaves == {IntExpression(0), IntExpression(2), FloatExpression(0, 1),
                StringExpression("a"), X}

\* Operations nested inside another operation.
InnerExprs ==
    {BinaryExpression(k, l, r) :
        k \in {"DivideExpression", "PlusExpression", "LessThanExpression"},
        l \in InnerLeaves, r \in InnerLeaves}

Expressions ==
    ExprLeaves
    \cup {BinaryExpression(k, l, r) : k \in BinaryKinds, l \in ExprLeaves, r \in ExprLeaves}
    \cup {BinaryExpression(k, l, r) : k \in BinaryKinds, l \in InnerExprs, r \in ExprLeaves}
    \cup {BinaryExpression(k, l, r) : k \in BinaryKinds, l \in ExprLeaves, r \in InnerExprs}
    \cup {FunctionCallExpression(nm, <<e>>) :
             nm \in {"lower", "upper", "sqrt"}, e \in ExprLeaves \cup InnerExprs}
    \cup {WildcardExpression, CountStar, FunctionCallExpression("lower", <<>>)}

\* x is unbound, null or a number.
ExprContexts == {EmptyDict, [k \in {"x"} |-> PyNone], [k \in {"x"} |-> PyInt(3)]}

InitExpr ==
    /\ expression \in Expressions
    /\ ctx \in ExprContexts
    /\ value = None
    /\ pc = "ready"
    /\ select = None
    /\ tables = NoTables
    /\ result = None
    /\ store = None /\ prior = None /\ call = None /\ ret = None /\ procs = None

ApplyExpression ==
    /\ pc = "ready"
    /\ value' = apply_expression(expression, ctx)
    /\ pc' = "done"
    /\ UNCHANGED <<select, tables, ctx, result, expression, store, prior, call, ret, procs>>

NextExpr == ApplyExpression

SpecExpr == InitExpr /\ [][NextExpr]_vars

-----------------------------------------------------------------------------
(* SpecStore: one method call on a table store                             *)

StoreNames == {"t", "u"}

ColA == Column("a", ColumnType("int"), TRUE, None, PyInt(0))
ColB == Column("b", ColumnType("string"), FALSE, ForeignKey("u", "a"), PyNone)
ColC == Column("c", ColumnType("float"), FALSE, None, PyNone)

StoreColumnLists == {<<>>, <<ColA>>, <<ColA, ColB>>}

RowA1 == [k \in {"a"} |-> PyInt(1)]
RowA2B == [k \in {"a", "b"} |-> IF k = "a" THEN PyInt(2) ELSE PyStr("x")]
StoreRows == {RowA1, RowA2B, EmptyDict}

\* The tables named "t" a store holds when the call is made.
HeldTables ==
    {Table("t", cols, rows) :
        cols \in StoreColumnLists, rows \in SeqsUpTo(StoreRows, MaxStoreRows)}

\* Work directories: an empty one, one an earlier store left after an
\* add_table, and one holding a data file written without a schema record.
Workdirs(kind) ==
    {EmptyDict}
    \cup {Fs_add_table(_ensure_metadata_table([kind |-> kind, files |-> EmptyDict]), t).store.files :
             t \in HeldTables}
    \cup {[p \in {table_path(kind, "t")} |-> json_dumps_rows(rows)] :
             rows \in SeqsUpTo(StoreRows, MaxStoreRows)}

BaseStores ==
    {InMemoryTables(<<>>)} \cup {InMemoryTables(<<t>>) : t \in HeldTables}
    \cup {FileSystemJsonTables(w) : w \in Workdirs("json")}
    \cup {FileSystemJsonLTables(w) : w \in Workdirs("jsonl")}

\* The snapshots and the overlay lists of the overlay stores.
UnderlyingTables == {Table("t", <<ColA>>, rows) : rows \in {<<>>, <<RowA1>>, <<RowA1, RowA2B>>}}
OverlayTables ==
    {Table("t", cols, rows) :
        cols \in {<<ColA, ColB>>, <<ColB>>}, rows \in {<<>>, <<RowA2B>>, <<RowA2B, RowA1>>}}

UnderlyingStores ==
    {InMemoryTables(<<>>), FileSystemJsonTables(EmptyDict), FileSystemJsonLTables(EmptyDict)}
    \cup {InMemoryTables(<<t>>) : t \in UnderlyingTables}
    \cup {Fs_add_table(FileSystemJsonTables(EmptyDict), t).store : t \in UnderlyingTables}
    \cup {Fs_add_table(FileSystemJsonLTables(EmptyDict), t).store : t \in UnderlyingTables}

ExtendedStores ==
    {ExtendedTables(b, ts) :
        b \in UnderlyingStores, ts \in {<<>>} \cup {<<t>> : t \in OverlayTables}}

\* The arguments of the calls.
AddedTables ==
    {Table(n, cols, rows) :
        n \in StoreNames, cols \in StoreColumnLists,
        rows \in {<<>>, <<RowA1>>, <<RowA2B, RowA1>>}}
UpdateIndexes == -1..MaxStoreRows
DeleteIndexes == {<<>>, <<0>>, <<1>>, <<0, 1>>, <<1, 0>>, <<0, 0>>, <<1, 1>>, <<MaxStoreRows>>, <<-1>>}
Changes == {[k \in {"a"} |-> PyInt(3)], [k \in {"b"} |-> PyStr("y")]}

InitStore ==
    /\ store \in BaseStores \cup ExtendedStores
    /\ prior = store
    /\ call = None
    /\ ret = None
    /\ procs = None
    /\ pc = "ready"
    /\ select = None /\ tables = NoTables /\ ctx = EmptyDict /\ result = None
    /\ expression = None /\ value = None

\* The call c is made on the store.
Invoke(c) ==
    /\ \E o \in store_call(store, c) :
          /\ store' = o.store
          /\ ret' = o.ret
    /\ call' = c
    /\ prior' = store
    /\ UNCHANGED <<select, tables, ctx, result, expression, value, procs>>

GetTable ==
    /\ pc = "ready" /\ pc' = "done"
    /\ \E n \in StoreNames : Invoke([op |-> "get_table", name |-> n])

AddTable ==
    /\ pc = "ready" /\ pc' = "done"
    /\ \E t \in AddedTables : Invoke([op |-> "add_table", table |-> t])

RemoveTable ==
    /\ pc = "ready" /\ pc' = "done"
    /\ \E n \in StoreNames : Invoke([op |-> "remove_table", name |-> n])

RenameTable ==
    /\ pc = "ready" /\ pc' = "done"
    /\ \E n \in StoreNames, m \in StoreNames :
          Invoke([op |-> "rename_table", name |-> n, new_name |-> m])

AddColumn ==
    /\ pc = "ready" /\ pc' = "done"
    /\ \E n \in StoreNames, col \in {ColA, ColC} :
          Invoke([op |-> "add_column", name |-> n, column |-> col])

RemoveColumn ==
    /\ pc = "ready" /\ pc' = "done"
    /\ \E n \in StoreNames, cn \in {"a", "b"} :
          Invoke([op |-> "remove_column", name |-> n, column_name |-> cn])

RenameColumn ==
    /\ pc = "ready" /\ pc' = "done"
    /\ \E n \in StoreNames, cn \in {"a", "b"}, m \in {"a", "b", "c"} :
          Invoke([op |-> "rename_column", name |-> n, column_name |-> cn, new_name |-> m])

ChangeColumnType ==
    /\ pc = "ready" /\ pc' = "done"
    /\ \E n \in StoreNames, cn \in {"a", "b"} :
          Invoke([op |-> "change_column_type", name |-> n, column_name |-> cn,
                  new_type |-> ColumnType("float")])

Insert ==
    /\ pc = "ready" /\ pc' = "done"
    /\ \E n \in StoreNames, row \in StoreRows :
          Invoke([op |-> "insert", name |-> n, row |-> row])

Update ==
    /\ pc = "ready" /\ pc' = "done"
    /\ \E n \in StoreNames, idx \in UpdateIndexes, ch \in Changes :
          Invoke([op |-> "update", name |-> n, idx |-> idx, changes |-> ch])

Delete ==
    /\ pc = "ready" /\ pc' = "done"
    /\ \E n \in StoreNames, idxs \in DeleteIndexes :
          Invoke([op |-> "delete", name |-> n, idxs |-> idxs])

NextStore ==
    \/ GetTable \/ AddTable \/ RemoveTable \/ RenameTable
    \/ AddColumn \/ RemoveColumn \/ RenameColumn \/ ChangeColumnType
    \/ Insert \/ Update \/ Delete

SpecStore == InitStore /\ [][NextStore]_vars

-----------------------------------------------------------------------------
(* What the claims speak about, read off a state after the call            *)

Done == pc = "done"

\* The rows the FROM clause supplies.
SourceRows ==
    IF select.from_part = None THEN <<EmptyDict>>
    ELSE tables[get_table(tables, select.from_part.table)].data

\* The value of the WHERE predicate on source row i.
WhereValue(i) ==
    apply_expression(select.where_part.expression, dict_merge(ctx, SourceRows[i]))

\* The rows that pass WHERE, in source order.
FilteredRows ==
    IF select.where_part = None THEN SourceRows
    ELSE SubSeqAt(SourceRows, {i \in 1..Len(SourceRows) : is_True(WhereValue(i))})

NoGroupBy == select.group_part = None
NoOrderBy == select.order_part = None
NoLimit == select.limit_part = None

\* The select list is the single call nm(foo) (string_agg(foo, ',')).
SelectsOnly(nm) == select.field_parts = <<Field(AggregateCall(nm))>>

\* foo of a row that has it and where it is not null.
HasValue(row) == "foo" \in DOMAIN row /\ ~is_None(row["foo"])
NonNullRows == SubSeqAt(FilteredRows, {i \in 1..Len(FilteredRows) : HasValue(FilteredRows[i])})

-----------------------------------------------------------------------------
(* C1: a SELECT without FROM                                               *)

\* WHERE keeps the single source row, or a grouping makes a row of its own.
C1_RowSurvives ==
    \/ select.where_part = None
    \/ is_True(WhereValue(1))
    \/ select.group_part # None
    \/ has_implicit_aggregation(select.field_parts)

\* LIMIT keeps position 0.
C1_LimitCovers ==
    \/ select.limit_part = None
    \/ select.limit_part.offset = 0 /\ select.limit_part.limit >= 1

-----------------------------------------------------------------------------
(* C2: sum, avg, min, max                                                  *)

RECURSIVE C2_Sum(_)
C2_Sum(rows) ==
    IF rows = <<>> THEN PyInt(0) ELSE py_add(rows[1]["foo"], C2_Sum(Tail(rows)))

C2_Expected(nm) ==
    CASE nm = "sum" -> C2_Sum(NonNullRows)
      [] nm = "avg" -> py_truediv(C2_Sum(NonNullRows), PyInt(Len(NonNullRows)))
      [] nm = "min" ->
            (CHOOSE r \in {NonNullRows[i] : i \in 1..Len(NonNullRows)} :
                \A i \in 1..Len(NonNullRows) : ~py_lt(NonNullRows[i]["foo"], r["foo"]))["foo"]
      [] nm = "max" ->
            (CHOOSE r \in {NonNullRows[i] : i \in 1..Len(NonNullRows)} :
                \A i \in 1..Len(NonNullRows) : ~py_lt(r["foo"], NonNullRows[i]["foo"]))["foo"]

\* C2: without GROUP BY, sum(foo), avg(foo), min(foo) and max(foo) over an
\* int column return one row keyed by the function name, whose value is
\* computed over the non-null values of foo in the filtered rows.
C2_NullSkippingAggregates ==
    \A nm \in {"sum", "avg", "min", "max"} :
        (/\ Done /\ select.from_part # None /\ SelectsOnly(nm)
         /\ NoGroupBy /\ NoOrderBy /\ NoLimit
         /\ \A i \in 1..Len(SourceRows) :
                "foo" \in DOMAIN SourceRows[i] /\ SourceRows[i]["foo"].type \in {"int", "NoneType"}
         /\ select.where_part # Where(Foo)
         /\ Len(NonNullRows) > 0)
        => /\ result.ok
           /\ Len(result.data) = 1
           /\ DOMAIN result.data[1] = {nm}
           /\ py_eq(result.data[1][nm], C2_Expected(nm))

-----------------------------------------------------------------------------
(* C3: count of all rows and count of a column                             *)

C3_CountsQuery ==
    /\ Done /\ result.ok /\ select.from_part # None
    /\ \E i \in 1..Len(select.field_parts) :
          select.field_parts[i] = SelectField(CountStar, PyStr("n"))
    /\ \E i \in 1..Len(select.field_parts) :
          select.field_parts[i] = SelectField(AggregateCall("count"), PyStr("m"))

\* The member rows of the group of result row r: all filtered rows without
\* GROUP BY, the filtered rows with r's value of foo under GROUP BY foo.
C3_Group(r) ==
    IF NoGroupBy THEN FilteredRows
    ELSE SubSeqAt(FilteredRows,
             {i \in 1..Len(FilteredRows) : py_eq(FilteredRows[i]["foo"], r["foo"])})

\* C3: count of * is the number of rows of the current group, count(foo) the
\* number of its rows in which foo is present and not null; so count(foo) <=
\* count of *, with equality exactly when no row of the group lacks foo or has
\* it null.
C3_Counts ==
    C3_CountsQuery =>
        \A k \in 1..Len(result.data) :
            LET r == result.data[k]
                group == C3_Group(r)
                valued == {i \in 1..Len(group) : HasValue(group[i])}
            IN  /\ r["n"] = PyInt(Len(group))
                /\ r["m"] = PyInt(Cardinality(valued))
                /\ r["m"].n <= r["n"].n
                /\ (r["m"].n = r["n"].n) <=> (\A i \in 1..Len(group) : HasValue(group[i]))

\* Under GROUP BY: a group of nulls and a group of values, counted.
C3_Witness ==
    /\ C3_CountsQuery /\ ~NoGroupBy
    /\ \E k \in 1..Len(result.data) :
          result.data[k]["n"].n >= 2 /\ result.data[k]["m"].n < result.data[k]["n"].n
    /\ \E k \in 1..Len(result.data) :
          result.data[k]["n"].n >= 1 /\ result.data[k]["m"].n = result.data[k]["n"].n

-----------------------------------------------------------------------------
(* C4: every, bool_and, bool_or                                            *)

C4_Expected(nm) ==
    IF nm = "bool_or"
    THEN PyBool(\E i \in 1..Len(NonNullRows) : is_True(NonNullRows[i]["foo"]))
    ELSE PyBool(~\E i \in 1..Len(NonNullRows) : is_False(NonNullRows[i]["foo"]))

\* C4: without GROUP BY, every(foo) and bool_and(foo) over a bool column are
\* false if a non-null value of the filtered rows is false and true
\* otherwise, bool_or(foo) is true if a non-null value is true and false
\* otherwise, and the query returns exactly one row.
C4_BooleanAggregates ==
    \A nm \in {"every", "bool_and", "bool_or"} :
        (/\ Done /\ select.from_part # None /\ SelectsOnly(nm)
         /\ NoGroupBy /\ NoOrderBy /\ NoLimit
         /\ Len(SourceRows) > 0
         /\ \A i \in 1..Len(SourceRows) : SourceRows[i]["foo"].type \in {"bool", "NoneType"}
         /\ select.where_part = None)
        => /\ result.ok
           /\ Len(result.data) = 1
           /\ result.data[1][nm] = C4_Expected(nm)

-----------------------------------------------------------------------------
(* C5: array_agg, string_agg                                               *)

\* The values joined by sep, left to right.
RECURSIVE C5_Join(_, _)
C5_Join(rows, sep) ==
    IF rows = <<>> THEN ""
    ELSE IF Len(rows) = 1 THEN rows[1]["foo"].s
    ELSE rows[1]["foo"].s \o sep \o C5_Join(Tail(rows), sep)

\* C5: array_agg(foo) is the list of all values of foo in row order, nulls
\* kept; string_agg(foo, ',') is the non-null values of foo joined by ','
\* in row order.  Either query returns one row keyed by the function name.
C5_OrderPreservingAggregates ==
    /\ (/\ Done /\ select.from_part # None /\ SelectsOnly("array_agg")
        /\ NoGroupBy /\ NoOrderBy /\ NoLimit /\ select.where_part = None
        /\ Len(SourceRows) > 0
        /\ \A i \in 1..Len(SourceRows) : "foo" \in DOMAIN SourceRows[i])
       => /\ result.ok
          /\ Len(result.data) = 1
          /\ result.data[1]["array_agg"] =
                 [i \in 1..Len(SourceRows) |-> SourceRows[i]["foo"]]
    /\ (/\ Done /\ select.from_part # None /\ SelectsOnly("string_agg")
        /\ NoGroupBy /\ NoOrderBy /\ NoLimit /\ select.where_part = None
        /\ Len(SourceRows) > 0
        /\ \A i \in 1..Len(SourceRows) : SourceRows[i]["foo"].type \in {"str", "NoneType"})
       => /\ result.ok
          /\ Len(result.data) = 1
          /\ result.data[1]["string_agg"] = PyStr(C5_Join(NonNullRows, ","))

-----------------------------------------------------------------------------
(* C6: the implicit single group                                           *)

\* C6: a query with no GROUP BY and no LIMIT whose select list has a call to
\* one of the twelve aggregate functions returns, when it returns, exactly
\* one row, whatever the number of filtered rows.
C6_ImplicitGroup ==
    (/\ Done /\ result.ok /\ NoGroupBy /\ NoLimit
     /\ \E i \in 1..Len(select.field_parts) :
           /\ select.field_parts[i].expression.kind = "FunctionCallExpression"
           /\ select.field_parts[i].expression.name \in AggregateNames)
    => Len(result.data) = 1

-----------------------------------------------------------------------------
(* C7: WHERE                                                               *)

C7_IsBool(v) == is_True(v) \/ is_False(v)

\* The query returns the rows of the WHERE stage as they are: no select
\* list, no grouping, no ordering, no limit.
C7_BareFilter ==
    /\ select.field_parts = <<>>
    /\ NoGroupBy /\ NoOrderBy /\ NoLimit

\* C7: WHERE keeps exactly the rows, in input order, on which the predicate
\* is the boolean true; when the predicate is not a boolean on some row the
\* query fails (with the error of the first such row).
C7_Where ==
    (Done /\ select.where_part # None) =>
        LET bad == {i \in 1..Len(SourceRows) : ~C7_IsBool(WhereValue(i))}
        IN  /\ bad # {} =>
                /\ ~result.ok
                /\ result.error = IF IsException(WhereValue(Min(bad)))
                                  THEN WhereValue(Min(bad)).s
                                  ELSE "Where expressions should return bool"
            /\ (bad = {} /\ C7_BareFilter) =>
                /\ result.ok
                /\ result.data =
                       SubSeqAt(SourceRows,
                           {i \in 1..Len(SourceRows) : WhereValue(i) = PyBool(TRUE)})

\* Rows kept and rows dropped by one WHERE.
C7_Witness ==
    /\ Done /\ select.where_part # None /\ C7_BareFilter /\ result.ok
    /\ Len(SourceRows) = 3 /\ Len(result.data) = 2
    /\ result.data[1] # result.data[2]

\* A predicate that is a number or a null on some row.
C7_WitnessNonBool ==
    /\ Done /\ select.where_part # None /\ ~result.ok
    /\ result.error = "Where expressions should return bool"
    /\ \E i \in 1..Len(SourceRows) : WhereValue(i).type = "NoneType"

-----------------------------------------------------------------------------
(* C8: division by zero (SpecExpr)                                         *)

\* The value of a subexpression in the context of the call.
ValueOf(e) == apply_expression(e, ctx)

IsNumber(v) == v.type \in {"int", "float"}
IsZero(v) == IsNumber(v) /\ v.n = 0

\* e is a division of a number by an integer or float zero.
C8_DividesByZero(e) ==
    /\ e.kind = "DivideExpression"
    /\ IsNumber(ValueOf(e.left))
    /\ IsZero(ValueOf(e.right))

\* C8: a division whose right operand evaluates to an integer or float zero
\* and whose left operand evaluates to a number raises the division-by-zero
\* error; so does every operation one of whose operands is such a division
\* (unless its left operand raised first), and a scalar function applied to
\* one.  No such expression yields a value.
C8_DivisionByZero ==
    Done =>
        /\ C8_DividesByZero(expression) => value = Raise("Division by zero")
        /\ (expression.kind \in BinaryKinds /\ C8_DividesByZero(expression.left))
              => value = Raise("Division by zero")
        /\ (expression.kind \in BinaryKinds /\ C8_DividesByZero(expression.right))
              => /\ IsException(value)
                 /\ ~IsException(ValueOf(expression.left))
                       => value = Raise("Division by zero")
        /\ (/\ expression.kind = "FunctionCallExpression"
            /\ expression.name \in {"lower", "upper"}
            /\ Len(expression.args) = 1
            /\ C8_DividesByZero(expression.args[1]))
              => value = Raise("Division by zero")

\* A nested division of a float by the float zero has been evaluated.
C8_Witness ==
    /\ Done
    /\ expression.kind \in BinaryKinds
    /\ C8_DividesByZero(expression.right)
    /\ ValueOf(expression.right.left).type = "float"
    /\ ValueOf(expression.right.right).type = "float"
    /\ value = Raise("Division by zero")

-----------------------------------------------------------------------------
(* C9: operand types of the arithmetic and ordering operators (SpecExpr)   *)

\* C9: an arithmetic or ordering operator whose operands both evaluate, one
\* of them to a string, a boolean or null, raises the type error.
C9_TypeError ==
    (/\ Done
     /\ expression.kind \in ArithmeticKinds \cup OrderingKinds
     /\ ~IsException(ValueOf(expression.left))
     /\ ~IsException(ValueOf(expression.right))
     /\ ~(IsNumber(ValueOf(expression.left)) /\ IsNumber(ValueOf(expression.right))))
    => value = Raise("Unsupported types")

-----------------------------------------------------------------------------
(* C10: the keys of a projected row                                        *)

\* The key the claim gives a select field.
C10_Key(field) ==
    IF field.alias # PyNone THEN field.alias.s
    ELSE IF field.expression.kind = "NameExpression" THEN field.expression.name
    ELSE IF field.expression.kind = "FunctionCallExpression" THEN field.expression.name
    ELSE "?column?"

\* C10: every projected row has exactly the keys of the select fields: the
\* alias if one is given, else the name of a bare name, else the function
\* name of a call, else "?column?".  SELECT 1+1 gives [{"?column?": 2}] and
\* SELECT 1+1 AS a gives [{"a": 2}].
C10_FieldKeys ==
    (Done /\ result.ok /\ Len(select.field_parts) > 0) =>
        /\ \A r \in 1..Len(result.data) :
              DOMAIN result.data[r] =
                  {C10_Key(select.field_parts[f]) : f \in 1..Len(select.field_parts)}
        /\ select = Select(<<Field(OnePlusOne)>>, None, None, None, None, None)
              => result.data = <<[k \in {"?column?"} |-> PyInt(2)]>>
        /\ select = Select(<<SelectField(OnePlusOne, PyStr("a"))>>, None, None, None, None, None)
              => result.data = <<[k \in {"a"} |-> PyInt(2)]>>

\* A row with an alias key, a name key and the placeholder.
C10_Witness ==
    /\ Done /\ result.ok
    /\ Len(select.field_parts) = 3
    /\ Len(result.data) = 1
    /\ DOMAIN result.data[1] = {"a", "x", "?column?"}

-----------------------------------------------------------------------------
(* What the store claims speak about, read off a state after the call      *)

FileBacked(s) == s.kind \in {"json", "jsonl"}

\* The data file of table n of a file-backed store is there.
HasFile(s, n) == exists(s, table_path(s.kind, n))

\* What get_table(n) on store s answers: one outcome, or one per order the
\* inferred columns can come in.
Shown(s, n) == {o.ret : o \in store_call(s, [op |-> "get_table", name |-> n])}

\* A column as get_table hands it over: name, type, primary key, foreign key.
ColumnFacts(col) ==
    [name |-> col.name, type |-> col.type,
     is_primary_key |-> col.is_primary_key, foreign_key |-> col.foreign_key]
ColumnSet(columns) == {ColumnFacts(columns[i]) : i \in 1..Len(columns)}

\* A store that is not an overlay holds a table named n.
BaseHolds(s, n) ==
    IF s.kind = "memory" THEN get_table(s.tables, n) # 0 ELSE HasFile(s, n)

\* The rows a store that is not an overlay keeps for table n.
BaseRows(s, n) ==
    IF s.kind = "memory" THEN s.tables[get_table(s.tables, n)].data ELSE read_rows(s, n)

InOverlay(s, n) == s.kind = "extended" /\ get_table(s.extra_tables, n) # 0

\* Some layer of the store holds a table named n.
Holds(s, n) ==
    IF s.kind = "extended" THEN InOverlay(s, n) \/ BaseHolds(s.snapshot, n)
    ELSE BaseHolds(s, n)

\* The rows of the table a mutating call on n works on: the overlay table
\* where there is one, the table of the store or of its snapshot otherwise.
TargetRows(s, n) ==
    IF InOverlay(s, n) THEN s.extra_tables[get_table(s.extra_tables, n)].data
    ELSE IF s.kind = "extended" THEN BaseRows(s.snapshot, n)
    ELSE BaseRows(s, n)

InRange(idx, rows) == 0 <= idx /\ idx < Len(rows)

-----------------------------------------------------------------------------
(* C11: add_table then get_table on the file-backed stores                 *)

\* C11: on the JSON and the JSON-Lines store, after add_table(t) for a name
\* the store did not hold, get_table(t.name) returns the columns of t (name,
\* type, primary key, foreign key) and the rows of t in order, for every t,
\* one with an empty column list included.
C11_AddTableRoundTrip ==
    (/\ Done
     /\ FileBacked(prior)
     /\ call.op = "add_table"
     /\ ~HasFile(prior, call.table.name))
    => /\ ret.ok
       /\ \A r \in Shown(store, call.table.name) :
             /\ r.ok
             /\ r.value # None
             /\ r.value.data = call.table.data
             /\ ColumnSet(r.value.columns) = ColumnSet(call.table.columns)

-----------------------------------------------------------------------------
(* C12: insert then get_table                                              *)

\* C12: on every backend, the overlay tables of ExtendedTables included,
\* after insert(table, row) on a table the store holds, get_table shows the
\* rows the table had, in their order and unchanged, followed by the new row.
C12_InsertAppends ==
    (/\ Done
     /\ call.op = "insert"
     /\ Holds(prior, call.name))
    => /\ ret.ok
       /\ \A r \in Shown(store, call.name) :
             /\ r.ok
             /\ r.value # None
             /\ r.value.data = Append(TargetRows(prior, call.name), call.row)

-----------------------------------------------------------------------------
(* C13: delete with every index in range                                   *)

AllInRange(idxs, rows) == \A k \in 1..Len(idxs) : InRange(idxs[k], rows)

\* The rows at the positions no index of idxs names, in their order.
C13_Remaining(rows, idxs) ==
    SubSeqAt(rows, {i \in 1..Len(rows) : \A k \in 1..Len(idxs) : idxs[k] # i - 1})

\* C13: on every backend, delete(table, idxs) with every index in
\* [0, row count) succeeds and leaves exactly the rows whose positions are not
\* in idxs, in their order, whether idxs is sorted or not and whether or not
\* it repeats an index.
C13_DeleteLeavesOthers ==
    (/\ Done
     /\ call.op = "delete"
     /\ Holds(prior, call.name)
     /\ AllInRange(call.idxs, TargetRows(prior, call.name)))
    => /\ ret.ok
       /\ TargetRows(store, call.name) = C13_Remaining(TargetRows(prior, call.name), call.idxs)

-----------------------------------------------------------------------------
(* C14: update with the index in range                                     *)

\* The row with the keys of changes set and its other keys kept.
C14_Merged(row, changes) ==
    [k \in DOMAIN row \cup DOMAIN changes |-> IF k \in DOMAIN changes THEN changes[k] ELSE row[k]]

C14_UpdateInRange ==
    /\ Done
    /\ call.op = "update"
    /\ Holds(prior, call.name)
    /\ InRange(call.idx, TargetRows(prior, call.name))

\* C14: on every backend, update(table, idx, changes) with idx in
\* [0, row count) succeeds, sets the keys of changes in the row at position
\* idx and keeps that row's other keys, and leaves the number of rows, their
\* order and every other row as they were.
C14_UpdateMerges ==
    C14_UpdateInRange
    => /\ ret.ok
       /\ Len(TargetRows(store, call.name)) = Len(TargetRows(prior, call.name))
       /\ \A i \in 1..Len(TargetRows(prior, call.name)) :
             TargetRows(store, call.name)[i] =
                IF i = call.idx + 1
                THEN C14_Merged(TargetRows(prior, call.name)[i], call.changes)
                ELSE TargetRows(prior, call.name)[i]

\* An update of the second of two rows, which has a key the changes leave.
C14_Witness ==
    /\ C14_UpdateInRange
    /\ ret.ok
    /\ call.idx = 1
    /\ Len(TargetRows(prior, call.name)) = 2
    /\ DOMAIN TargetRows(prior, call.name)[2] \ DOMAIN call.changes # {}
    /\ TargetRows(store, call.name)[2] # TargetRows(prior, call.name)[2]

-----------------------------------------------------------------------------
(* C15: rename_column on the file-backed stores                            *)

C15_RenamesColumn ==
    /\ Done
    /\ FileBacked(prior)
    /\ call.op = "rename_column"
    /\ HasFile(prior, call.name)
    /\ has_column(_get_table_metadata(prior, call.name), call.column_name)
    /\ call.new_name # call.column_name

\* Row after is row before with the value of old_name moved under new_name
\* and every other key as it was.
C15_Moved(before, after, old_name, new_name) ==
    /\ old_name \notin DOMAIN after
    /\ old_name \in DOMAIN before =>
          new_name \in DOMAIN after /\ after[new_name] = before[old_name]
    /\ \A k \in DOMAIN before \ {old_name} : k \in DOMAIN after /\ after[k] = before[k]

\* C15: on the JSON and the JSON-Lines store, rename_column(table, old, new)
\* on a column that exists, for any other name new, succeeds; get_table then
\* shows as many columns as before, one named new and none named old, and as
\* many rows as before, each with the value it had under old now under new
\* and the values of its other keys unchanged.
C15_RenameColumnMovesValues ==
    C15_RenamesColumn
    => /\ ret.ok
       /\ \A r \in Shown(store, call.name) :
             /\ r.ok
             /\ r.value # None
             /\ Len(r.value.columns) = Len(_get_table_metadata(prior, call.name))
             /\ has_column(r.value.columns, call.new_name)
             /\ ~has_column(r.value.columns, call.column_name)
             /\ Cardinality({r.value.columns[i].name : i \in 1..Len(r.value.columns)})
                   = Len(r.value.columns)
             /\ Len(r.value.data) = Len(read_rows(prior, call.name))
             /\ \A i \in 1..Len(r.value.data) :
                   C15_Moved(read_rows(prior, call.name)[i], r.value.data[i],
                             call.column_name, call.new_name)

-----------------------------------------------------------------------------
(* C16: update and delete with an index out of range                       *)

C16_OutOfRange ==
    /\ Done
    /\ FileBacked(prior)
    /\ call.op \in {"update", "delete"}
    /\ HasFile(prior, call.name)
    /\ IF call.op = "update" THEN ~InRange(call.idx, read_rows(prior, call.name))
       ELSE ~AllInRange(call.idxs, read_rows(prior, call.name))

\* C16: on the JSON and the JSON-Lines store, update with idx outside
\* [0, row count) and delete with any index outside that range fail with an
\* index error and leave the data file of the table exactly as it was.
C16_IndexErrorLeavesFile ==
    C16_OutOfRange
    => /\ ~ret.ok
       /\ ret.error = "IndexError"
       /\ store.files[table_path(store.kind, call.name)]
             = prior.files[table_path(prior.kind, call.name)]

-----------------------------------------------------------------------------
(* C17: calls on a table whose data file is missing                        *)

C17_Methods ==
    {"get_table", "insert", "update", "delete", "add_column", "remove_column",
     "rename_column", "remove_table", "rename_table"}

C17_MissingFile ==
    /\ Done
    /\ FileBacked(prior)
    /\ call.op \in C17_Methods
    /\ ~HasFile(prior, call.name)

\* C17: on the JSON and the JSON-Lines store, get_table, insert, update,
\* delete, add_column, remove_column, rename_column, remove_table and
\* rename_table on a table whose data file does not exist fail with a
\* not-found error and neither create nor change any file.
C17_NotFoundTouchesNothing ==
    C17_MissingFile
    => /\ ~ret.ok
       /\ ret.error = "FileNotFoundError"
       /\ store.files = prior.files

-----------------------------------------------------------------------------
(* SpecNames: add_table, remove_table and rename_table, one after another,  *)
(* on a store that starts empty                                            *)

TableNames == {"t", "u", "v"}

EmptyStores ==
    {InMemoryTables(<<>>), FileSystemJsonTables(EmptyDict), FileSystemJsonLTables(EmptyDict)}

InitNames ==
    /\ store \in EmptyStores
    /\ prior = store
    /\ call = None
    /\ ret = None
    /\ procs = None
    /\ pc = "names"
    /\ select = None /\ tables = NoTables /\ ctx = EmptyDict /\ result = None
    /\ expression = None /\ value = None

NamesAddTable ==
    /\ pc = "names" /\ pc' = "names"
    /\ \E n \in TableNames, cols \in {<<>>, <<ColA>>} :
          Invoke([op |-> "add_table", table |-> Table(n, cols, <<>>)])

NamesRemoveTable ==
    /\ pc = "names" /\ pc' = "names"
    /\ \E n \in TableNames : Invoke([op |-> "remove_table", name |-> n])

NamesRenameTable ==
    /\ pc = "names" /\ pc' = "names"
    /\ \E n \in TableNames, m \in TableNames :
          Invoke([op |-> "rename_table", name |-> n, new_name |-> m])

NextNames == NamesAddTable \/ NamesRemoveTable \/ NamesRenameTable

SpecNames == InitNames /\ [][NextNames]_vars

-----------------------------------------------------------------------------
(* C18: table names stay unique                                            *)

\* The store holds a table named n: a table of the list, or a data file.
C18_Present(s, n) ==
    IF s.kind = "memory" THEN \E i \in 1..Len(s.tables) : s.tables[i].name = n
    ELSE table_path(s.kind, n) \in DOMAIN s.files

\* The names the store keeps, one per table of the list, one per record of
\* the JSON-Lines schema file; the data files and the records of the JSON
\* schema file are keyed by name.
C18_Names(s) ==
    IF s.kind = "memory" THEN [i \in 1..Len(s.tables) |-> s.tables[i].name]
    ELSE IF s.kind = "jsonl"
    THEN [i \in 1..Len(s.files[metadata_path("jsonl")]) |->
             s.files[metadata_path("jsonl")][i].table_name]
    ELSE <<>>

C18_AddsPresent ==
    /\ pc = "names" /\ call # None
    /\ call.op = "add_table"
    /\ C18_Present(prior, call.table.name)

C18_RenamesOntoPresent ==
    /\ pc = "names" /\ call # None
    /\ call.op = "rename_table"
    /\ C18_Present(prior, call.name)
    /\ C18_Present(prior, call.new_name)

\* C18: on the in-memory, the JSON and the JSON-Lines store, add_table with
\* a name the store holds and rename_table onto a name the store holds fail
\* with an already-exists error and leave the store as it was; and after any
\* sequence of add_table, remove_table and rename_table from an empty store
\* no two tables share a name.
C18_NamesStayUnique ==
    /\ (C18_AddsPresent \/ C18_RenamesOntoPresent)
          => /\ ~ret.ok
             /\ ret.error = "ValueError: already exists"
             /\ store = prior
    /\ \A i, j \in 1..Len(C18_Names(store)) :
          i # j => C18_Names(store)[i] # C18_Names(store)[j]

\* Three tables are held and a rename onto one of them has just failed.
C18_Witness ==
    /\ C18_RenamesOntoPresent
    /\ call.name # call.new_name
    /\ ~ret.ok
    /\ \A n \in TableNames : C18_Present(store, n)

-----------------------------------------------------------------------------
(* C19: a name held by both layers of ExtendedTables                       *)

C19_Mutators ==
    {"insert", "update", "delete", "add_column", "remove_column", "rename_column",
     "change_column_type"}

C19_InBothLayers ==
    /\ Done
    /\ prior.kind = "extended"
    /\ InOverlay(prior, called_table(call))
    /\ BaseHolds(prior.snapshot, called_table(call))

\* C19: when the overlay and the underlying snapshot of an ExtendedTables
\* both hold a name, get_table returns the table of the underlying snapshot,
\* and insert, update, delete, add_column, remove_column, rename_column and
\* change_column_type leave the underlying snapshot unchanged, so that a
\* following get_table shows what it showed before.
C19_OverlayShadowed ==
    /\ (C19_InBothLayers /\ call.op = "get_table")
          => ret \in Shown(prior.snapshot, call.name)
    /\ (C19_InBothLayers /\ call.op \in C19_Mutators)
          => /\ store.snapshot = prior.snapshot
             /\ Shown(store, call.name) = Shown(prior, call.name)

-----------------------------------------------------------------------------
(* C20: ExtendedTables.get_table for a name the snapshot does not hold     *)

C20_GetsMissingFromSnapshot ==
    /\ Done
    /\ prior.kind = "extended"
    /\ call.op = "get_table"
    /\ ~BaseHolds(prior.snapshot, call.name)

\* C20: ExtendedTables.get_table(name) returns the overlay table when only
\* the overlay holds the name, whichever backend the underlying snapshot is
\* (in-memory, JSON or JSON-Lines), and returns None without an error when
\* neither layer holds it.
C20_OverlayOnlyOrNone ==
    C20_GetsMissingFromSnapshot
    => /\ ret.ok
       /\ ret.value =
             IF InOverlay(prior, call.name)
             THEN prior.extra_tables[get_table(prior.extra_tables, call.name)]
             ELSE None

-----------------------------------------------------------------------------
(* C21: ExtendedTables.remove_table and add_table, then get_table          *)

\* get_table(n) on store s returns a table.
C21_ShowsTable(s, n) == \A r \in Shown(s, n) : r.ok /\ r.value # None

C21_Removes ==
    /\ Done
    /\ prior.kind = "extended"
    /\ call.op = "remove_table"
    /\ C21_ShowsTable(prior, call.name)

C21_Adds ==
    /\ Done
    /\ prior.kind = "extended"
    /\ call.op = "add_table"

\* C21: after ExtendedTables.remove_table(name), get_table(name) returns
\* None for every table get_table(name) returned before the call, whether the
\* overlay or the underlying snapshot held it; and after
\* ExtendedTables.add_table(t), get_table(t.name) returns a table.
C21_RemoveThenNoneAddThenTable ==
    /\ C21_Removes => Shown(store, call.name) = {Returned(None)}
    /\ C21_Adds => ret.ok /\ C21_ShowsTable(store, call.table.name)

-----------------------------------------------------------------------------
(* C22: column ids                                                         *)

\* The column lists of the tables a store holds, file-backed ones as the
\* schema file records them.
C22_ColumnLists(s) ==
    IF s.kind = "memory" THEN {s.tables[i].columns : i \in 1..Len(s.tables)}
    ELSE IF s.kind = "extended"
    THEN {s.extra_tables[i].columns : i \in 1..Len(s.extra_tables)}
    ELSE {_get_table_metadata(s, n) : n \in StoreNames}

C22_ColumnCalls == {"rename_column", "change_column_type", "add_column", "remove_column"}

\* The ids of a column list, in the order of the columns.
C22_Ids(columns) == [k \in 1..Len(columns) |-> columns[k].column_id]

\* C22: every Column has a column_id from its creation on; no two columns of
\* a table share an id; and after rename_column, change_column_type,
\* add_column or remove_column, on any backend, the ids of the columns a
\* table had before are the ids of its surviving columns.
C22_StableColumnIds ==
    /\ \A columns \in C22_ColumnLists(store) : \A k \in 1..Len(columns) :
          "column_id" \in DOMAIN columns[k]
    /\ \A columns \in C22_ColumnLists(store) : \A j, k \in 1..Len(columns) :
          j # k => columns[j].column_id # columns[k].column_id
    /\ (Done /\ call.op \in C22_ColumnCalls /\ ret.ok)
          => \A after \in C22_ColumnLists(store) : \E before \in C22_ColumnLists(prior) :
                \A k \in 1..Len(after) :
                   \/ call.op = "add_column" /\ k = Len(after)
                   \/ \E j \in 1..Len(before) : C22_Ids(before)[j] = C22_Ids(after)[k]

-----------------------------------------------------------------------------
(* SpecRace: two insert calls on one table of a JSON store, each a read of  *)
(* the data file followed by a write of it, in any interleaving            *)

Callers == {1, 2}

\* The directory holds table "t" with some rows, or no table at all.
RaceStores ==
    {Fs_add_table(FileSystemJsonTables(EmptyDict), Table("t", <<ColA>>, rows)).store :
        rows \in SeqsUpTo(StoreRows, MaxStoreRows)}
    \cup {FileSystemJsonTables(EmptyDict)}

InitRace ==
    /\ store \in RaceStores
    /\ prior = store
    /\ procs \in [Callers -> {[row |-> r, at |-> "called", rows |-> <<>>] : r \in StoreRows}]
    /\ call = None
    /\ ret = None
    /\ pc = "race"
    /\ select = None /\ tables = NoTables /\ ctx = EmptyDict /\ result = None
    /\ expression = None /\ value = None

\* insert up to rows = json.loads(table_path.read_text()): the path is
\* tested and the file read.
InsertRead(p) ==
    /\ pc = "race"
    /\ procs[p].at = "called"
    /\ procs' = [procs EXCEPT ![p] =
                    IF ~exists(store, table_path(store.kind, "t"))
                    THEN [@ EXCEPT !.at = "raised"]
                    ELSE [@ EXCEPT !.at = "read", !.rows = read_rows(store, "t")]]
    /\ UNCHANGED <<select, tables, ctx, result, pc, expression, value, store, prior, call, ret>>

\* The rest of insert: the row is appended to the rows read and the file
\* written.
InsertWrite(p) ==
    /\ pc = "race"
    /\ procs[p].at = "read"
    /\ store' = Json_insert(store, "t", procs[p].row, procs[p].rows).store
    /\ procs' = [procs EXCEPT ![p].at = "done"]
    /\ UNCHANGED <<select, tables, ctx, result, pc, expression, value, prior, call, ret>>

NextRace == \E p \in Callers : InsertRead(p) \/ InsertWrite(p)

SpecRace == InitRace /\ [][NextRace]_vars

-----------------------------------------------------------------------------
(* C23: two inserts on the same JSON table                                 *)

C23_BothDone == pc = "race" /\ \A p \in Callers : procs[p].at = "done"

\* Both calls read the data file before either wrote it: each read the rows
\* the file had at the start.
C23_BothReadFirst == \A p \in Callers : procs[p].rows = read_rows(prior, "t")

\* C23: when two insert calls on the same table of the JSON store both read
\* the data file before either writes it, the file ends with the rows it had
\* and the row of the call that wrote last, the row of the other call
\* missing; when one call reads after the other has written, the file ends
\* with the rows it had followed by both rows, in the order of the calls.
C23_LostInsert ==
    C23_BothDone
    => IF C23_BothReadFirst
       THEN read_rows(store, "t") \in
               {Append(read_rows(prior, "t"), procs[p].row) : p \in Callers}
       ELSE read_rows(store, "t") \in
               {read_rows(prior, "t") \o <<procs[pq[1]].row, procs[pq[2]].row>> :
                   pq \in {<<1, 2>>, <<2, 1>>}}

\* Both calls are over, two different rows were inserted and one is missing.
C23_Witness ==
    /\ C23_BothDone
    /\ procs[1].row # procs[2].row
    /\ Len(read_rows(store, "t")) = Len(read_rows(prior, "t")) + 1

-----------------------------------------------------------------------------
(* SpecClause: one call of a clause function of apply.py on a row list     *)

\* Rows with two sort keys, a and b.
ClauseRows ==
    {[k \in {"a", "b"} |-> IF k = "a" THEN va ELSE vb] :
        va \in {PyInt(1), PyInt(2)}, vb \in {PyInt(1), PyInt(2)}}

\* Row lists in which row i carries id = i, which tells equal rows apart.
ClauseData ==
    {[i \in 1..Len(d) |-> dict_set(d[i], "id", PyInt(i))] : d \in SeqsUpTo(ClauseRows, MaxRows)}

ClauseOrderFields ==
    {OrderField(NameExpression(nm), dir) : nm \in {"a", "b"}, dir \in {"ASC", "DESC"}}

\* The base context: empty, or with a value for a that every row overrides.
ClauseContexts == {EmptyDict, [k \in {"a"} |-> PyInt(9)]}

OrderByCalls ==
    {[op |-> "apply_order_by", order_by |-> OrderBy(fs), data |-> d, ctx |-> c] :
        fs \in SeqsUpTo(ClauseOrderFields, 2), d \in ClauseData, c \in ClauseContexts}

\* Rows of the two tables of a join: both carry k, with different values, and
\* row i of a table carries its position (lid on the left, rid on the right).
JoinLeftRows == {[k \in {"k", "x"} |-> IF k = "k" THEN PyInt(1) ELSE PyInt(vx)] : vx \in {0, 1}}
JoinRightRows == {[k \in {"k", "y"} |-> IF k = "k" THEN PyInt(2) ELSE PyInt(vy)] : vy \in {0, 1}}

JoinTables ==
    {<<Table("l", <<>>, [i \in 1..Len(ld) |-> dict_set(ld[i], "lid", PyInt(i))]),
       Table("r", <<>>, [j \in 1..Len(rd) |-> dict_set(rd[j], "rid", PyInt(j))])>> :
        ld \in SeqsUpTo(JoinLeftRows, MaxJoinRows), rd \in SeqsUpTo(JoinRightRows, MaxJoinRows)}

\* ON expressions: a comparison, a number, a comparison with the shared
\* field, a name no row has.
JoinOns ==
    {EqualExpression(NameExpression("x"), NameExpression("y")),
     NameExpression("y"),
     EqualExpression(NameExpression("k"), IntExpression(2)),
     EqualExpression(NameExpression("x"), NameExpression("z"))}

JoinFroms ==
    {From("l", <<Join("r", e)>>) : e \in JoinOns}
    \cup {From("l", <<Join("r", e), Join("r", NameExpression("x"))>>) : e \in JoinOns}
    \cup {From("l", <<>>), From("l", <<Join("s", NameExpression("y"))>>), None}

FromCalls ==
    {[op |-> "apply_from", from_part |-> f, tables |-> t, ctx |-> c] :
        f \in JoinFroms, t \in JoinTables, c \in {EmptyDict, [k \in {"z"} |-> PyInt(1)]}}

\* Rows to group: a is a number, a boolean or null, and row i carries id = i.
GroupRows ==
    {[k \in {"a", "b"} |-> IF k = "a" THEN va ELSE vb] :
        va \in {PyInt(1), PyBool(FALSE), PyNone}, vb \in {PyInt(1), PyInt(2)}}

GroupData ==
    {[i \in 1..Len(d) |-> dict_set(d[i], "id", PyInt(i))] : d \in SeqsUpTo(GroupRows, MaxRows)}

GroupFieldLists ==
    {<<NameExpression("a")>>, <<NameExpression("b")>>,
     <<NameExpression("a"), NameExpression("b")>>, <<NameExpression("z")>>}

GroupByCalls ==
    {[op |-> "apply_group_by", group_by |-> GroupBy(fs), data |-> d, ctx |-> EmptyDict] :
        fs \in GroupFieldLists, d \in GroupData}

ClauseCalls == OrderByCalls \cup FromCalls \cup GroupByCalls

InitClause ==
    /\ call \in ClauseCalls
    /\ ret = None
    /\ pc = "ready"
    /\ select = None /\ tables = NoTables /\ ctx = EmptyDict /\ result = None
    /\ expression = None /\ value = None
    /\ store = None /\ prior = None /\ procs = None

ApplyOrderBy ==
    /\ pc = "ready"
    /\ call.op = "apply_order_by"
    /\ ret' \in apply_order_by(call.order_by, call.data, call.ctx)
    /\ pc' = "done"
    /\ UNCHANGED <<select, tables, ctx, result, expression, value, store, prior, call, procs>>

ApplyFrom ==
    /\ pc = "ready"
    /\ call.op = "apply_from"
    /\ ret' = apply_from(call.from_part, call.tables, call.ctx)
    /\ pc' = "done"
    /\ UNCHANGED <<select, tables, ctx, result, expression, value, store, prior, call, procs>>

ApplyGroupBy ==
    /\ pc = "ready"
    /\ call.op = "apply_group_by"
    /\ ret' = apply_group_by(call.group_by, call.data, call.ctx)
    /\ pc' = "done"
    /\ UNCHANGED <<select, tables, ctx, result, expression, value, store, prior, call, procs>>

NextClause == ApplyOrderBy \/ ApplyFrom \/ ApplyGroupBy

SpecClause == InitClause /\ [][NextClause]_vars

-----------------------------------------------------------------------------
(* C24: ORDER BY on several fields                                         *)

C24_Ordered == Done /\ call.op = "apply_order_by"

\* The sort key of a row for an order field (a bare name).
C24_Key(row, field) == row[field.expression.name]

C24_AllNumbers ==
    \A i \in 1..Len(call.data) : \A k \in 1..Len(call.order_by.fields) :
        C24_Key(call.data[i], call.order_by.fields[k]).type = "int"

\* The order fields on which rows r and s differ.
C24_Differing(r, s, fields) ==
    {k \in 1..Len(fields) : C24_Key(r, fields[k]) # C24_Key(s, fields[k])}

\* Row r comes before row s: by the last declared field on which they
\* differ, smaller first (larger first for DESC); by their input positions
\* when they differ on none.
C24_Precedes(r, s, fields) ==
    IF C24_Differing(r, s, fields) = {} THEN r["id"].n < s["id"].n
    ELSE LET k == CHOOSE m \in C24_Differing(r, s, fields) :
                      \A j \in C24_Differing(r, s, fields) : j <= m
         IN  IF fields[k].direction = "DESC"
             THEN C24_Key(s, fields[k]).n < C24_Key(r, fields[k]).n
             ELSE C24_Key(r, fields[k]).n < C24_Key(s, fields[k]).n

\* C24: apply_order_by on rows whose keys are numbers returns the rows of
\* its input ordered by the last declared field (descending for DESC), ties
\* ordered by the preceding declared field, and rows equal on every order
\* field in their input order, for ASC and DESC alike.
C24_StableMultiSort ==
    (C24_Ordered /\ C24_AllNumbers)
    => /\ ret.ok
       /\ Len(ret.data) = Len(call.data)
       /\ {ret.data[i] : i \in 1..Len(ret.data)} = {call.data[i] : i \in 1..Len(call.data)}
       /\ \A x, y \in 1..Len(ret.data) :
             x < y => C24_Precedes(ret.data[x], ret.data[y], call.order_by.fields)

\* Two fields, the last one DESC, with a tie on it that the first field
\* decides against the input order and a tie on both.
C24_Witness ==
    /\ C24_Ordered /\ C24_AllNumbers /\ ret.ok
    /\ Len(call.order_by.fields) = 2
    /\ call.order_by.fields[2].direction = "DESC"
    /\ call.order_by.fields[1].expression # call.order_by.fields[2].expression
    /\ Len(call.data) = 3
    /\ ret.data # call.data
    /\ \E x, y \in 1..3 :
          /\ x < y
          /\ C24_Differing(ret.data[x], ret.data[y], call.order_by.fields) = {}
    /\ \E x, y \in 1..3 :
          /\ x < y
          /\ C24_Differing(ret.data[x], ret.data[y], call.order_by.fields) = {1}
          /\ ret.data[x]["id"].n > ret.data[y]["id"].n

-----------------------------------------------------------------------------
(* SpecLimit: apply_select on queries with LIMIT and OFFSET                *)

LimitSnapshots ==
    {<<Table("bar", <<Column("foo", PyStr("text"), FALSE, None, PyNone)>>, d)>> :
        d \in SeqsUpTo(StrRows, MaxRows)}

\* Limits and offsets within, at the end of and beyond a list of MaxRows rows.
Limits ==
    {Limit(lim, off) : lim \in 0..2, off \in 0..2} \cup {Limit(1, 5), Limit(5, 1)}

LimitQueries ==
    {Select(fs, From("bar", <<>>), wh, gr, ord, lim) :
        fs \in {<<>>, <<Field(Foo)>>, <<Field(FunctionCallExpression("lower", <<Foo>>))>>},
        wh \in {None, Where(NotEqualExpression(Foo, StringExpression("a")))},
        gr \in {None, GroupBy(<<Foo>>)},
        ord \in {None, OrderBy(<<OrderField(Foo, "DESC")>>)},
        lim \in Limits}

InitLimit ==
    /\ select \in LimitQueries
    /\ tables \in LimitSnapshots
    /\ ctx = EmptyDict
    /\ result = None
    /\ pc = "ready"
    /\ expression = None
    /\ value = None
    /\ store = None /\ prior = None /\ call = None /\ ret = None /\ procs = None

SpecLimit == InitLimit /\ [][Next]_vars

-----------------------------------------------------------------------------
(* C25: LIMIT and OFFSET                                                   *)

C25_Limited == Done /\ select.limit_part # None /\ ~has_implicit_aggregation(select.field_parts)

\* What the query yields up to and including ORDER BY: the query without
\* LIMIT and without select list returns that list as it is.
C25_OrderedLists ==
    {o.result : o \in apply_select([select EXCEPT !.field_parts = <<>>, !.limit_part = None],
                                   tables, ctx)}

\* The rows of list at positions offset .. offset + limit - 1, counted from 0.
C25_Slice(list) ==
    SubSeqAt(list, {i \in 1..Len(list) :
                       /\ select.limit_part.offset < i
                       /\ i <= select.limit_part.offset + select.limit_part.limit})

C25_Length(n) ==
    LET rest == IF n - select.limit_part.offset < 0 THEN 0 ELSE n - select.limit_part.offset
    IN  IF select.limit_part.limit < rest THEN select.limit_part.limit ELSE rest

\* C25: LIMIT/OFFSET is applied to the list that WHERE, GROUP BY and ORDER
\* BY leave and before the projection: the result is the projection of the
\* rows at positions offset .. offset + limit - 1 of that list, in order;
\* min(limit, max(0, n - offset)) rows when the list has n, and no error when
\* offset or limit reach beyond the list.
C25_LimitSlicesOrderedList ==
    C25_Limited
    => \E ordered \in C25_OrderedLists :
          IF ~ordered.ok THEN result = ordered
          ELSE /\ result =
                     IF Len(select.field_parts) = 0 THEN Ok(C25_Slice(ordered.data))
                     ELSE apply_select_fields(select.field_parts, C25_Slice(ordered.data), ctx)
               /\ result.ok => Len(result.data) = C25_Length(Len(ordered.data))
               /\ Len(select.field_parts) = 0 => result.ok

\* The offset cuts rows off the front and the limit rows off the end of a
\* list of three rows.
C25_Witness ==
    /\ C25_Limited /\ result.ok
    /\ select.order_part # None
    /\ select.limit_part = Limit(1, 1)
    /\ Len(select.field_parts) # 0
    /\ Len(result.data) = 1
    /\ \E ordered \in C25_OrderedLists : ordered.ok /\ Len(ordered.data) = 3

\* The offset lies beyond the list: no row and no error.
C25_WitnessBeyond ==
    /\ C25_Limited /\ result.ok
    /\ select.limit_part = Limit(1, 5)
    /\ Len(result.data) = 0
    /\ \E ordered \in C25_OrderedLists : ordered.ok /\ Len(ordered.data) = 2

-----------------------------------------------------------------------------
(* C26: FROM a JOIN b ON e                                                 *)

C26_Joined == Done /\ call.op = "apply_from" /\ call.from_part # None /\ ret.ok

C26_Join == call.from_part.join[Len(call.from_part.join)]

\* The left rows of the last join: the table's rows, or what the joins before
\* it produced.
C26_Left ==
    apply_from([call.from_part EXCEPT !.join = SubSeq(call.from_part.join, 1,
                                                      Len(call.from_part.join) - 1)],
               call.tables, call.ctx).data

C26_Right == (CHOOSE t \in {call.tables[n] : n \in 1..Len(call.tables)} :
                 t.name = C26_Join.table).data

C26_On(i, j) ==
    apply_expression(C26_Join.on,
        [k \in DOMAIN call.ctx \cup DOMAIN C26_Left[i] \cup DOMAIN C26_Right[j] |->
            IF k \in DOMAIN C26_Right[j] THEN C26_Right[j][k]
            ELSE IF k \in DOMAIN C26_Left[i] THEN C26_Left[i][k]
            ELSE call.ctx[k]])

\* The right row's value for a field both rows have.
C26_Merged(i, j) ==
    [k \in DOMAIN C26_Left[i] \cup DOMAIN C26_Right[j] |->
        IF k \in DOMAIN C26_Right[j] THEN C26_Right[j][k] ELSE C26_Left[i][k]]

C26_Pairs == (1..Len(C26_Left)) \X (1..Len(C26_Right))

\* The position of a pair among the pairs P, left-major.
C26_Rank(P, p) ==
    Cardinality({q \in P : q[1] < p[1] \/ (q[1] = p[1] /\ q[2] <= p[2])})

\* The returned rows are the merged rows of the pairs P, left-major.
C26_Returns(P) ==
    /\ Len(ret.data) = Cardinality(P)
    /\ \A p \in P : ret.data[C26_Rank(P, p)] = C26_Merged(p[1], p[2])

-----------------------------------------------------------------------------
(* C27: apply_group_by                                                     *)

C27_Grouped == Done /\ call.op = "apply_group_by" /\ ret.ok

\* The key tuple of a row: the values of the group expressions, which are
\* names of the row's fields here.
C27_Key(row) ==
    [f \in 1..Len(call.group_by.fields) |-> row[call.group_by.fields[f].name]]

\* Two key tuples are the same tuple when their values are equal pairwise, as
\* Python compares them (false = 0, and null equals only null).
C27_SameKey(k1, k2) == \A f \in 1..Len(k1) : py_eq(k1[f], k2[f])

C27_Bucket(g) == ret.data[g][GROUPED_ROWS]

\* C27: with rows, apply_group_by yields one pseudo-row per distinct key
\* tuple: the pseudo-rows have pairwise distinct keys, every input row is in
\* the bucket of exactly one pseudo-row, the one with its key tuple, no bucket
\* is empty or holds anything else, and each bucket lists its rows in input
\* order; without rows it yields one pseudo-row with null keys and an empty
\* bucket.
C27_OnePseudoRowPerKey ==
    C27_Grouped
    => IF Len(call.data) = 0
       THEN /\ Len(ret.data) = 1
            /\ C27_Bucket(1) = <<>>
            /\ \A f \in 1..Len(call.group_by.fields) :
                  ret.data[1][call.group_by.fields[f].name] = PyNone
       ELSE /\ \A g, h \in 1..Len(ret.data) :
                  g # h => ~C27_SameKey(C27_Key(ret.data[g]), C27_Key(ret.data[h]))
            /\ \A i \in 1..Len(call.data) :
                  \E g \in 1..Len(ret.data) :
                     /\ C27_SameKey(C27_Key(ret.data[g]), C27_Key(call.data[i]))
                     /\ \A h \in 1..Len(ret.data) :
                           (\E n \in 1..Len(C27_Bucket(h)) : C27_Bucket(h)[n] = call.data[i])
                           <=> h = g
            /\ \A g \in 1..Len(ret.data) :
                  /\ Len(C27_Bucket(g)) # 0
                  /\ \A n \in 1..Len(C27_Bucket(g)) :
                        \E i \in 1..Len(call.data) : C27_Bucket(g)[n] = call.data[i]
                  /\ \A m, n \in 1..Len(C27_Bucket(g)) :
                        m < n => C27_Bucket(g)[m]["id"].n < C27_Bucket(g)[n]["id"].n

\* Three rows in two groups, the rows of the first group not adjacent.
C27_Witness ==
    /\ C27_Grouped
    /\ Len(call.data) = 3 /\ Len(call.group_by.fields) = 2
    /\ Len(ret.data) = 2
    /\ Len(C27_Bucket(1)) = 2
    /\ C27_Bucket(1)[1]["id"] = PyInt(1) /\ C27_Bucket(1)[2]["id"] = PyInt(3)

\* No row: one pseudo-row with a null key and an empty bucket.
C27_WitnessEmpty ==
    /\ C27_Grouped
    /\ Len(call.data) = 0 /\ Len(call.group_by.fields) = 1
    /\ Len(ret.data) = 1

-----------------------------------------------------------------------------
(* SpecRename: rename_table on a store that holds the tables t and u       *)

RenamedTables ==
    {Table("t", cols, rows) :
        cols \in StoreColumnLists, rows \in {<<>>, <<RowA1>>, <<RowA2B, RowA1>>}}

OtherTables ==
    {Table("u", cols, rows) : cols \in {<<>>, <<ColA>>}, rows \in {<<>>, <<RowA1>>}}

RenameStores ==
    {InMemoryTables(<<t, u>>) : t \in RenamedTables, u \in OtherTables}
    \cup {Fs_add_table(Fs_add_table(FileSystemJsonTables(EmptyDict), t).store, u).store :
             t \in RenamedTables, u \in OtherTables}
    \cup {Fs_add_table(Fs_add_table(FileSystemJsonLTables(EmptyDict), t).store, u).store :
             t \in RenamedTables, u \in OtherTables}

InitRename ==
    /\ store \in RenameStores
    /\ prior = store
    /\ call = None
    /\ ret = None
    /\ procs = None
    /\ pc = "ready"
    /\ select = None /\ tables = NoTables /\ ctx = EmptyDict /\ result = None
    /\ expression = None /\ value = None

RenameHeldTable ==
    /\ pc = "ready" /\ pc' = "done"
    /\ \E n \in TableNames, m \in TableNames :
          Invoke([op |-> "rename_table", name |-> n, new_name |-> m])

NextRename == RenameHeldTable

SpecRename == InitRename /\ [][NextRename]_vars

-----------------------------------------------------------------------------
(* C28: rename_table                                                       *)

C28_Renames ==
    /\ Done
    /\ prior.kind \in {"memory", "json", "jsonl"}
    /\ call.op = "rename_table"
    /\ BaseHolds(prior, call.name)
    /\ ~BaseHolds(prior, call.new_name)

\* What get_table answered for the old name, under the new name.
C28_Renamed(r) == [r EXCEPT !.value = [r.value EXCEPT !.name = call.new_name]]

\* C28: on the in-memory, the JSON and the JSON-Lines store,
\* rename_table(old, new) with old held and new not held returns; afterwards
\* get_table(old) finds no table, get_table(new) returns the columns and the
\* rows, in order, that get_table(old) returned before, and get_table answers
\* for every other name what it answered before.
C28_RenameMovesTable ==
    C28_Renames
    => /\ ret.ok
       /\ \A r \in Shown(store, call.name) : ~r.ok \/ r.value = None
       /\ \A r \in Shown(prior, call.name) : r.ok /\ r.value # None
       /\ Shown(store, call.new_name) = {C28_Renamed(r) : r \in Shown(prior, call.name)}
       /\ \A n \in TableNames \ {call.name, call.new_name} :
             Shown(store, n) = Shown(prior, n)

\* A table with declared columns and two rows is renamed in a store that
\* holds another table with a row.
C28_Witness ==
    /\ C28_Renames /\ ret.ok
    /\ call.name = "t" /\ call.new_name = "v"
    /\ \E r \in Shown(store, "v") :
          r.ok /\ r.value # None /\ Len(r.value.columns) = 2 /\ Len(r.value.data) = 2
    /\ \E r \in Shown(store, "u") : r.ok /\ r.value # None /\ Len(r.value.data) = 1

-----------------------------------------------------------------------------
(* C29: add_column on the file-backed stores                               *)

C29_AddsColumn ==
    /\ Done
    /\ FileBacked(prior)
    /\ call.op = "add_column"
    /\ HasFile(prior, call.name)

\* The column lists get_table returned for the table before the call.
C29_ColumnsBefore ==
    {[i \in 1..Len(r.value.columns) |-> ColumnFacts(r.value.columns[i])] :
        r \in {q \in Shown(prior, call.name) : q.ok /\ q.value # None}}

\* The table has a column of the name of the added one.
C29_HasName ==
    \E columns \in C29_ColumnsBefore :
       \E i \in 1..Len(columns) : columns[i].name = call.column.name

C29_RowsBefore == read_rows(prior, call.name)

\* C29: on the file-backed stores add_column(table, c) with a name the table
\* has no column of returns, get_table then shows the columns the table had,
\* followed by c, and the rows it had with key c.name set to c.default, as
\* many as before and otherwise unchanged; with a name the table has a column
\* of it fails with an already-exists error and leaves every file as it was.
C29_AddColumnOrAlreadyExists ==
    C29_AddsColumn
    => IF C29_HasName
       THEN /\ ~ret.ok
            /\ ret.error = "ValueError: column already exists"
            /\ store.files = prior.files
       ELSE /\ ret.ok
            /\ \A r \in Shown(store, call.name) :
                  /\ r.ok /\ r.value # None
                  /\ [i \in 1..Len(r.value.columns) |-> ColumnFacts(r.value.columns[i])]
                        \in {Append(columns, ColumnFacts(call.column)) :
                                columns \in C29_ColumnsBefore}
                  /\ Len(r.value.data) = Len(C29_RowsBefore)
                  /\ \A i \in 1..Len(C29_RowsBefore) :
                        r.value.data[i] = [k \in DOMAIN C29_RowsBefore[i] \cup {call.column.name} |->
                                              IF k = call.column.name THEN call.column.default
                                              ELSE C29_RowsBefore[i][k]]

-----------------------------------------------------------------------------
(* json_sql/parser.py: the parser of token lists.  A parsing function      *)
(* returns [ok, node, tokens]: the node (None when the clause is not       *)
(* there) and the remaining tokens, or [ok |-> FALSE, error] when it       *)
(* raises.                                                                 *)

Token(type, val) == [type |-> type, value |-> val]

Parsed(node, tokens_left) == [ok |-> TRUE, node |-> node, tokens |-> tokens_left, error |-> ""]
ParseRaised(kind) == [ok |-> FALSE, node |-> None, tokens |-> <<>>, error |-> kind]

\* str.upper() on the keyword spellings of the model.
keyword_upper(str) ==
    CASE str = "desc" -> "DESC"
      [] str = "from" -> "FROM"
      [] OTHER -> str

\* tokens[0] is a keyword spelled kw, in any case.
starts_with_keyword(tokens_in, kw) ==
    /\ Len(tokens_in) # 0
    /\ tokens_in[1].type = "keyword"
    /\ keyword_upper(tokens_in[1].value) = kw

\* The while loop of parse_order: name [ASC | DESC], separated by commas.
RECURSIVE order_fields_from(_, _)
order_fields_from(tokens_in, order_fields) ==
    IF Len(tokens_in) # 0 /\ tokens_in[1].type = "name"
    THEN LET after_name == Tail(tokens_in)
             has_order == /\ Len(after_name) # 0
                          /\ after_name[1].type = "keyword"
                          /\ keyword_upper(after_name[1].value) \in {"ASC", "DESC"}
             order == IF has_order THEN keyword_upper(after_name[1].value) ELSE "ASC"
             after_order == IF has_order THEN Tail(after_name) ELSE after_name
             fields == Append(order_fields,
                           [kind |-> "OrderField",
                            expression |-> [kind |-> "NameExpression", name |-> tokens_in[1].value],
                            direction |-> order])
         IN  IF Len(after_order) # 0 /\ after_order[1].type = "comma"
             THEN order_fields_from(Tail(after_order), fields)
             ELSE Parsed([kind |-> "OrderBy", fields |-> fields], after_order)
    ELSE Parsed([kind |-> "OrderBy", fields |-> order_fields], tokens_in)

parse_order(tokens_in) ==
    IF ~starts_with_keyword(tokens_in, "ORDER BY") THEN Parsed(None, tokens_in)
    ELSE order_fields_from(Tail(tokens_in), <<>>)

\* The expression parse_where builds: None for an operator it has no branch
\* for.
where_expression(operator, field, val) ==
    LET binary(kind) == [kind |-> kind,
                         left |-> [kind |-> "NameExpression", name |-> field],
                         right |-> [kind |-> "StringExpression", value |-> val]]
    IN  CASE operator = "=" -> binary("EqualExpression")
          [] operator = "!=" -> binary("NotEqualExpression")
          [] operator = ">" -> binary("GreaterThanExpression")
          [] operator = "<" -> binary("LessThanExpression")
          [] operator = ">=" -> binary("GreaterThanOrEqualExpression")
          [] OTHER -> None

parse_where(tokens_in) ==
    IF ~starts_with_keyword(tokens_in, "WHERE") THEN Parsed(None, tokens_in)
    ELSE IF Len(tokens_in) < 2 \/ tokens_in[2].type # "name"
    THEN ParseRaised("ValueError")
    ELSE IF Len(tokens_in) < 3 \/ tokens_in[3].type # "operator"
    THEN ParseRaised("ValueError")
    ELSE IF Len(tokens_in) < 4 \/ tokens_in[4].type \notin {"str", "number"}
    THEN ParseRaised("ValueError")
    ELSE Parsed([kind |-> "Where",
                 expression |-> where_expression(tokens_in[3].value, tokens_in[2].value,
                                                 tokens_in[4].value)],
                SubSeq(tokens_in, 5, Len(tokens_in)))

parse_from(tokens_in) ==
    IF ~starts_with_keyword(tokens_in, "FROM") THEN Parsed(None, tokens_in)
    ELSE IF Len(tokens_in) < 2 \/ tokens_in[2].type # "name"
    THEN ParseRaised("ValueError")
    ELSE IF Len(tokens_in) >= 3 /\ tokens_in[3].type = "name"
    THEN Parsed([kind |-> "From", table |-> tokens_in[2].value, alias |-> tokens_in[3].value],
                SubSeq(tokens_in, 4, Len(tokens_in)))
    ELSE Parsed([kind |-> "From", table |-> tokens_in[2].value, alias |-> None],
                SubSeq(tokens_in, 3, Len(tokens_in)))

\* parse_fields reads tokens[0] without testing that there is one.
parse_fields(tokens_in) ==
    IF Len(tokens_in) = 0 THEN ParseRaised("IndexError")
    ELSE LET field_parts ==
                 IF tokens_in[1].type = "wildcard" THEN <<[kind |-> "SelectWildcard"]>>
                 ELSE IF tokens_in[1].type = "name"
                 THEN <<[kind |-> "SelectField",
                         expression |-> [kind |-> "NameExpression", name |-> tokens_in[1].value]]>>
                 ELSE <<>>
             after_field == IF Len(field_parts) # 0 THEN Tail(tokens_in) ELSE tokens_in
         IN  IF Len(after_field) # 0 /\ after_field[1].type = "comma"
             THEN Parsed(field_parts, Tail(after_field))
             ELSE Parsed(field_parts, after_field)

parse_select(tokens_in) ==
    IF ~starts_with_keyword(tokens_in, "SELECT") THEN ParseRaised("ValueError")
    ELSE LET fields == parse_fields(Tail(tokens_in))
         IN  IF ~fields.ok THEN fields
             ELSE LET from_part == parse_from(fields.tokens)
                  IN  IF ~from_part.ok THEN from_part
                      ELSE LET where_part == parse_where(from_part.tokens)
                           IN  IF ~where_part.ok THEN where_part
                               ELSE LET order_part == parse_order(where_part.tokens)
                                    IN  Parsed([kind |-> "Select",
                                                field_parts |-> fields.node,
                                                from_part |-> from_part.node,
                                                where_part |-> where_part.node,
                                                order_part |-> order_part.node],
                                               order_part.tokens)

parse(tokens_in) ==
    LET select_part == parse_select(tokens_in)
    IN  IF ~select_part.ok THEN select_part
        ELSE IF Len(select_part.tokens) # 0 THEN ParseRaised("ValueError")
        ELSE Parsed(select_part.node, <<>>)

-----------------------------------------------------------------------------
(* SpecParse: parse on token lists made of a head and up to MaxClauses     *)
(* pieces, clauses in any order and number among them                      *)

KwToken(kw) == Token("keyword", kw)
NameToken == Token("name", "a")

ParseHeads ==
    {<<>>, <<KwToken("SELECT")>>, <<NameToken>>,
     <<KwToken("SELECT"), NameToken>>,
     <<KwToken("SELECT"), Token("wildcard", "*")>>,
     <<KwToken("SELECT"), NameToken, Token("comma", ",")>>}

ParsePieces ==
    {<<KwToken("from"), NameToken>>,
     <<KwToken("FROM")>>,
     <<KwToken("WHERE"), NameToken, Token("operator", "="), Token("str", "x")>>,
     <<KwToken("WHERE"), NameToken, Token("operator", "<="), Token("number", "1")>>,
     <<KwToken("WHERE"), NameToken>>,
     <<KwToken("ORDER BY"), NameToken, KwToken("desc")>>,
     <<KwToken("ORDER BY"), NameToken, Token("comma", ",")>>,
     <<KwToken("GROUP BY"), NameToken>>,
     <<KwToken("LIMIT"), Token("number", "1")>>,
     <<Token("comma", ","), Token("name", "b")>>,
     <<KwToken("WHERE"), NameToken, Token("operator", "="), Token("int", "1")>>,
     <<NameToken>>}

RECURSIVE Flatten(_)
Flatten(pieces) == IF Len(pieces) = 0 THEN <<>> ELSE Head(pieces) \o Flatten(Tail(pieces))

TokenLists == {h \o Flatten(ps) : h \in ParseHeads, ps \in SeqsUpTo(ParsePieces, MaxClauses)}

InitParse ==
    /\ call \in {[op |-> "parse", tokens |-> ts] : ts \in TokenLists}
    /\ ret = None
    /\ pc = "ready"
    /\ select = None /\ tables = NoTables /\ ctx = EmptyDict /\ result = None
    /\ expression = None /\ value = None
    /\ store = None /\ prior = None /\ procs = None

Parse ==
    /\ pc = "ready"
    /\ call.op = "parse"
    /\ ret' = parse(call.tokens)
    /\ pc' = "done"
    /\ UNCHANGED <<select, tables, ctx, result, expression, value, store, prior, call, procs>>

NextParse == Parse

SpecParse == InitParse /\ [][NextParse]_vars

-----------------------------------------------------------------------------
(* C30: parse accepts exactly one statement                                *)

C30_Parsed == Done /\ call.op = "parse"

\* C30: for every token list parse either returns a Select, having consumed
\* every token, or fails with a parse error (the parser raises ValueError for
\* those); when tokens are left after SELECT and its clauses it fails.
C30_SelectOrParseError ==
    C30_Parsed
    => /\ \/ ret.ok /\ ret.node.kind = "Select" /\ parse_select(call.tokens).tokens = <<>>
          \/ ~ret.ok /\ ret.error = "ValueError"
       /\ (parse_select(call.tokens).ok /\ Len(parse_select(call.tokens).tokens) # 0)
          => ~ret.ok

-----------------------------------------------------------------------------
(* C31: the select list                                                    *)

C31_IsField(t) == t.type \in {"name", "wildcard"}

\* The tokens are SELECT, n fields separated by commas and then nothing or
\* FROM and a table name.
C31_SelectsFields(n) ==
    /\ Len(call.tokens) >= 2 * n
    /\ call.tokens[1].type = "keyword" /\ keyword_upper(call.tokens[1].value) = "SELECT"
    /\ \A i \in 1..n : C31_IsField(call.tokens[2 * i])
    /\ \A i \in 1..(n - 1) : call.tokens[2 * i + 1].type = "comma"
    /\ \/ Len(call.tokens) = 2 * n
       \/ /\ Len(call.tokens) = 2 * n + 2
          /\ call.tokens[2 * n + 1].type = "keyword"
          /\ keyword_upper(call.tokens[2 * n + 1].value) = "FROM"
          /\ call.tokens[2 * n + 2].type = "name"

\* The node of the field a token stands for.
C31_FieldOf(t) ==
    IF t.type = "wildcard" THEN [kind |-> "SelectWildcard"]
    ELSE [kind |-> "SelectField", expression |-> [kind |-> "NameExpression", name |-> t.value]]

\* C31: a select list of n >= 1 fields separated by commas parses to a Select
\* with exactly these n fields in source order, and the FROM clause after it
\* is parsed; SELECT a, b FROM t is accepted with two fields.
C31_FieldListParses ==
    (Done /\ call.op = "parse")
    => \A n \in 1..Len(call.tokens) :
          C31_SelectsFields(n)
          => /\ ret.ok
             /\ ret.node.field_parts = [i \in 1..n |-> C31_FieldOf(call.tokens[2 * i])]
             /\ Len(call.tokens) = 2 * n + 2
                => /\ ret.node.from_part # None
                   /\ ret.node.from_part.table = call.tokens[2 * n + 2].value

-----------------------------------------------------------------------------
(* C32: WHERE name op literal                                              *)

\* The tokens are SELECT a WHERE name op literal.
C32_ComparesLiteral ==
    /\ Done /\ call.op = "parse"
    /\ Len(call.tokens) = 6
    /\ SubSeq(call.tokens, 1, 2) = <<KwToken("SELECT"), NameToken>>
    /\ call.tokens[3] = KwToken("WHERE")
    /\ call.tokens[4].type = "name"
    /\ call.tokens[5].type = "operator"
    /\ call.tokens[6].type \in {"str", "int", "float", "number"}

C32_Comparison(operator) ==
    CASE operator = "=" -> "EqualExpression"
      [] operator \in {"<>", "!="} -> "NotEqualExpression"
      [] operator = ">" -> "GreaterThanExpression"
      [] operator = ">=" -> "GreaterThanOrEqualExpression"
      [] operator = "<" -> "LessThanExpression"
      [] operator = "<=" -> "LessThanOrEqualExpression"

C32_Literals(type) ==
    CASE type = "str" -> {"StringExpression"}
      [] type = "int" -> {"IntExpression"}
      [] type = "float" -> {"FloatExpression"}
      [] type = "number" -> {"IntExpression", "FloatExpression"}

\* C32: WHERE name op literal, for each comparison operator and each kind of
\* literal, parses to a Where node holding the comparison of the operator,
\* the name on its left and a literal of the kind of the token on its right.
C32_WhereComparison ==
    C32_ComparesLiteral
    => /\ ret.ok
       /\ ret.node.where_part # None
       /\ ret.node.where_part.expression # None
       /\ ret.node.where_part.expression.kind = C32_Comparison(call.tokens[5].value)
       /\ ret.node.where_part.expression.left =
             [kind |-> "NameExpression", name |-> call.tokens[4].value]
       /\ ret.node.where_part.expression.right.kind \in C32_Literals(call.tokens[6].type)

-----------------------------------------------------------------------------
(* json_sql/lexer.py: the tokenizer.  A text is the sequence of its         *)
(* characters, and so is the value of a token it yields.  An extracting     *)
(* function returns [token, code]: the token and the text after it.         *)

operators == << <<"<", ">">>, <<">", "=">>, <<"<", "=">>, <<"=">>, <<">">>, <<"<">>, <<"!", "=">> >>

\* code.startswith(op)
startswith(code, op) == Len(code) >= Len(op) /\ SubSeq(code, 1, Len(op)) = op

\* code[n:], n counted from 0
code_from(code, n) == SubSeq(code, n + 1, Len(code))

isalnum(char) == char = "a"
isspace(char) == char = " "

start_with_operator(code) == \E k \in 1..Len(operators) : startswith(code, operators[k])

extract_operator(code) ==
    LET op == operators[Min({k \in 1..Len(operators) : startswith(code, operators[k])})]
    IN  [token |-> Token("operator", op), code |-> code_from(code, Len(op))]

start_with_space(code) == isspace(code[1])

\* The text from its first character that is no white space on.
RECURSIVE extract_space(_)
extract_space(code) ==
    IF Len(code) = 0 THEN <<>>
    ELSE IF isspace(code[1]) THEN extract_space(Tail(code))
    ELSE code

start_with_name(code) == isalnum(code[1])

\* The loop of extract_name from position idx (counted from 0) on.
RECURSIVE extract_name_from(_, _)
extract_name_from(code, idx) ==
    IF idx >= Len(code) THEN [token |-> Token("name", code), code |-> <<>>]
    ELSE IF isalnum(code[idx + 1]) THEN extract_name_from(code, idx + 1)
    ELSE [token |-> Token("name", SubSeq(code, 1, idx)), code |-> code_from(code, idx)]

extract_name(code) == extract_name_from(code, 0)

\* str.replace(quote + quote, quote): the leftmost pairs, not overlapping.
RECURSIVE replace_doubled(_, _)
replace_doubled(text, quote) ==
    IF Len(text) = 0 THEN <<>>
    ELSE IF Len(text) >= 2 /\ text[1] = quote /\ text[2] = quote
    THEN <<quote>> \o replace_doubled(SubSeq(text, 3, Len(text)), quote)
    ELSE <<text[1]>> \o replace_doubled(Tail(text), quote)

\* A wrong loop of extract_str and extract_quoted_name: the doubled quotes
\* stay in the value.
RECURSIVE extract_quoted_keeping_doubled(_, _, _, _)
extract_quoted_keeping_doubled(code, quote, type, idx) ==
    IF idx >= Len(code) THEN None
    ELSE LET char == code[idx + 1]
             next_char == IF idx + 1 < Len(code) THEN code[idx + 2] ELSE "None"
         IN  IF char = quote /\ next_char = quote /\ idx > 0
             THEN extract_quoted_keeping_doubled(code, quote, type, idx + 2)
             ELSE IF char = quote /\ next_char # quote /\ idx > 0
             THEN [token |-> Token(type, SubSeq(code, 2, idx)),
                   code |-> code_from(code, idx + 1)]
             ELSE extract_quoted_keeping_doubled(code, quote, type, idx + 1)

\* The loop of extract_str and of extract_quoted_name from position idx
\* (counted from 0) on: after a doubled quote next(enumeration) skips its
\* second character; the function returns None when the loop ends.
RECURSIVE extract_quoted(_, _, _, _)
extract_quoted(code, quote, type, idx) ==
    IF idx >= Len(code) THEN None
    ELSE LET char == code[idx + 1]
             next_char == IF idx + 1 < Len(code) THEN code[idx + 2] ELSE "None"
         IN  IF char = quote /\ next_char = quote /\ idx > 0
             THEN extract_quoted(code, quote, type, idx + 2)
             ELSE IF char = quote /\ next_char # quote /\ idx > 0
             THEN [token |-> Token(type, replace_doubled(SubSeq(code, 2, idx), quote)),
                   code |-> code_from(code, idx + 1)]
             ELSE extract_quoted(code, quote, type, idx + 1)

start_with_quoted_name(code) == code[1] = "\""
extract_quoted_name(code) == extract_quoted(code, "\"", "name", 0)

start_with_str(code) == code[1] = "'"
extract_str(code) == extract_quoted(code, "'", "str", 0)

Lexed(toks) == [ok |-> TRUE, tokens |-> toks, error |-> ""]
LexRaised(kind) == [ok |-> FALSE, tokens |-> <<>>, error |-> kind]

\* The loop of extract_tokens: unpacking the None of an extracting function
\* raises TypeError.
RECURSIVE extract_tokens_from(_, _)
extract_tokens_from(code, found) ==
    IF Len(code) = 0 THEN Lexed(found)
    ELSE IF start_with_space(code) /\ ~start_with_name(code) /\ ~start_with_quoted_name(code)
            /\ ~start_with_operator(code) /\ ~start_with_str(code)
    THEN extract_tokens_from(extract_space(code), found)
    ELSE LET extracted ==
                 IF start_with_name(code) THEN extract_name(code)
                 ELSE IF start_with_quoted_name(code) THEN extract_quoted_name(code)
                 ELSE IF start_with_operator(code) THEN extract_operator(code)
                 ELSE IF start_with_str(code) THEN extract_str(code)
                 ELSE Raise("Exception")
         IN  IF extracted = None THEN LexRaised("TypeError")
             ELSE IF extracted = Raise("Exception") THEN LexRaised("Exception")
             ELSE extract_tokens_from(extracted.code, Append(found, extracted.token))

extract_tokens(code) == extract_tokens_from(code, <<>>)

-----------------------------------------------------------------------------
(* SpecLex: extract_tokens on the texts of up to MaxChars characters       *)

Chars == {"'", "\"", "a", "=", "!", " "}

InitLex ==
    /\ call \in {[op |-> "extract_tokens", code |-> code] : code \in SeqsUpTo(Chars, MaxChars)}
    /\ ret = None
    /\ pc = "ready"
    /\ select = None /\ tables = NoTables /\ ctx = EmptyDict /\ result = None
    /\ expression = None /\ value = None
    /\ store = None /\ prior = None /\ procs = None

ExtractTokens ==
    /\ pc = "ready"
    /\ call.op = "extract_tokens"
    /\ ret' = extract_tokens(call.code)
    /\ pc' = "done"
    /\ UNCHANGED <<select, tables, ctx, result, expression, value, store, prior, call, procs>>

NextLex == ExtractTokens

SpecLex == InitLex /\ [][NextLex]_vars

-----------------------------------------------------------------------------
(* C33: quoted literals and identifiers                                    *)

C33_Quoted ==
    /\ Done /\ call.op = "extract_tokens"
    /\ Len(call.code) # 0
    /\ call.code[1] \in {"'", "\""}

\* In text every quote character is one of a pair.
RECURSIVE C33_AllDoubled(_, _)
C33_AllDoubled(text, quote) ==
    IF Len(text) = 0 THEN TRUE
    ELSE IF text[1] # quote THEN C33_AllDoubled(Tail(text), quote)
    ELSE Len(text) >= 2 /\ text[2] = quote /\ C33_AllDoubled(SubSeq(text, 3, Len(text)), quote)

\* text with one quote for every pair of quotes.
RECURSIVE C33_Single(_, _)
C33_Single(text, quote) ==
    IF Len(text) = 0 THEN <<>>
    ELSE IF text[1] = quote THEN <<quote>> \o C33_Single(SubSeq(text, 3, Len(text)), quote)
    ELSE <<text[1]>> \o C33_Single(Tail(text), quote)

\* The positions of a closing quote: a quote that no quote follows, after a
\* content whose quotes are all doubled.
C33_Closings ==
    {k \in 2..Len(call.code) :
        /\ call.code[k] = call.code[1]
        /\ (k = Len(call.code) \/ call.code[k + 1] # call.code[1])
        /\ C33_AllDoubled(SubSeq(call.code, 2, k - 1), call.code[1])}

C33_Type == IF call.code[1] = "'" THEN "str" ELSE "name"

C33_WitnessOpen ==
    /\ C33_Quoted
    /\ call.code = <<"'", "a", "'", "'">>
    /\ ~ret.ok

-----------------------------------------------------------------------------
(* C34: aggregates under GROUP BY                                          *)

C34_GroupedCount ==
    /\ Done /\ result.ok
    /\ select.group_part # None
    /\ select.limit_part = None
    /\ \E i \in 1..Len(select.field_parts) :
          select.field_parts[i] = SelectField(CountStar, PyStr("n"))

\* The sum of the counts n of the first k result rows.
RECURSIVE C34_Sum(_)
C34_Sum(k) == IF k = 0 THEN 0 ELSE result.data[k]["n"].n + C34_Sum(k - 1)

\* C34: under GROUP BY the count of all rows in the select list is evaluated
\* for each result row over the rows of that row's own group: without LIMIT
\* the counts of the result rows add up to the number of rows that passed
\* WHERE, and as soon as there are two groups each count is smaller than it.
C34_CountsAddUp ==
    C34_GroupedCount
    => /\ C34_Sum(Len(result.data)) = Len(FilteredRows)
       /\ Len(result.data) >= 2
          => \A k \in 1..Len(result.data) : result.data[k]["n"].n < Len(FilteredRows)

\* Two groups, of two rows and of one.
C34_Witness ==
    /\ C34_GroupedCount
    /\ Len(result.data) = 2
    /\ Len(FilteredRows) = 3
    /\ result.data[1]["n"] = PyInt(2) /\ result.data[2]["n"] = PyInt(1)

-----------------------------------------------------------------------------
(* C35: rename_column in memory                                            *)

C35_RenamesColumn ==
    /\ Done
    /\ prior.kind = "memory"
    /\ call.op = "rename_column"
    /\ get_table(prior.tables, call.name) # 0
    /\ get_column(prior.tables[get_table(prior.tables, call.name)], call.column_name) # 0

C35_Before == prior.tables[get_table(prior.tables, call.name)]

\* C35: in memory rename_column(table, old, new) on a column the table has
\* returns and changes the recorded name of that column only: get_table shows
\* it named new, every other column and every row as before, so the rows keep
\* the key old and none gains a key new.
C35_RenameKeepsRows ==
    C35_RenamesColumn
    => /\ ret.ok
       /\ \A r \in Shown(store, call.name) :
             /\ r.ok /\ r.value # None
             /\ r.value.data = C35_Before.data
             /\ Len(r.value.columns) = Len(C35_Before.columns)
             /\ \A i \in 1..Len(r.value.columns) :
                   IF i = get_column(C35_Before, call.column_name)
                   THEN r.value.columns[i] = [C35_Before.columns[i] EXCEPT !.name = call.new_name]
                   ELSE r.value.columns[i] = C35_Before.columns[i]

\* Column a is renamed to c and a row keeps its key a.
C35_Witness ==
    /\ C35_RenamesColumn /\ ret.ok
    /\ call.column_name = "a" /\ call.new_name = "c"
    /\ \E r \in Shown(store, call.name) :
          /\ has_column(r.value.columns, "c")
          /\ Len(r.value.data) >= 1
          /\ "a" \in DOMAIN r.value.data[1] /\ "c" \notin DOMAIN r.value.data[1]

-----------------------------------------------------------------------------
(* C36: the JSON-Lines store changes rows by whole-file cycles              *)

C36_MutatesRows ==
    /\ Done
    /\ prior.kind = "jsonl"
    /\ call.op \in {"insert", "update", "delete"}

\* What the call makes of the rows it has read.
C36_ChangedInMemory(rows) ==
    CASE call.op = "insert" -> Append(rows, call.row)
      [] call.op = "update" -> update_at(rows, call.idx + 1, call.changes)
      [] call.op = "delete" -> rows_not_in(rows, call.idxs)

\* C36: on the JSON-Lines store insert, update and delete are whole-file
\* cycles, as on the JSON store: the data file is read in full, so that the
\* call fails and creates no file when there is none to read, and a call that
\* returns leaves in the file the rows it read with its change, written anew.
C36_WholeFileCycle ==
    C36_MutatesRows
    => IF ~HasFile(prior, call.name)
       THEN ~ret.ok /\ store.files = prior.files
       ELSE ret.ok
            => store.files[table_path("jsonl", call.name)]
                  = json_dumps_rows(C36_ChangedInMemory(read_rows(prior, call.name)))

-----------------------------------------------------------------------------
(* C37: apply_select and the snapshot                                       *)

\* C37: apply_select never changes the snapshot: whatever the clauses of the
\* query, and whether it returns or raises, every table has afterwards the
\* rows it had before, with the same contents and in the same order.
C37_SelectKeepsSnapshot == [][tables' = tables]_vars

-----------------------------------------------------------------------------
(* C38: the column names of a table stay pairwise distinct                  *)

\* The column lists store s keeps for table n, one per layer that holds n.
C38_ColumnLists(s, n) ==
    IF s.kind = "extended"
    THEN {s.extra_tables[i].columns :
             i \in {k \in 1..Len(s.extra_tables) : s.extra_tables[k].name = n}}
         \cup {s.snapshot.tables[i].columns :
                 i \in {k \in 1..(IF s.snapshot.kind = "memory"
                                  THEN Len(s.snapshot.tables) ELSE 0) :
                           s.snapshot.tables[k].name = n}}
         \cup (IF FileBacked(s.snapshot) /\ HasFile(s.snapshot, n)
               THEN {_get_table_metadata(s.snapshot, n)} ELSE {})
    ELSE IF s.kind = "memory"
    THEN {s.tables[i].columns : i \in {k \in 1..Len(s.tables) : s.tables[k].name = n}}
    ELSE IF HasFile(s, n) THEN {_get_table_metadata(s, n)} ELSE {}

C38_Distinct(columns) ==
    \A i, j \in 1..Len(columns) : columns[i].name = columns[j].name => i = j

C38_ChangesColumns ==
    /\ Done
    /\ call.op \in {"add_column", "rename_column", "remove_column"}
    /\ \A columns \in C38_ColumnLists(prior, call.name) : C38_Distinct(columns)

\* C38: on every backend, after add_column, rename_column or remove_column,
\* returned or raised, on a table whose column names are pairwise distinct,
\* the column names of the table are still pairwise distinct.
C38_ColumnNamesStayDistinct ==
    C38_ChangesColumns
    => \A columns \in C38_ColumnLists(store, call.name) : C38_Distinct(columns)

-----------------------------------------------------------------------------
(* C39: the schema file and the data files name the same tables             *)

\* The schema file of file-backed store s has an entry for table n.
C39_HasEntry(s, n) ==
    IF s.kind = "json" THEN n \in DOMAIN s.files[metadata_path("json")]
    ELSE \E i \in 1..Len(s.files[metadata_path("jsonl")]) :
            s.files[metadata_path("jsonl")][i].table_name = n

C39_Agree(s) == \A n \in TableNames : C39_HasEntry(s, n) <=> HasFile(s, n)

\* C39: on the JSON and the JSON-Lines store, a completed operation, returned
\* or raised, on a directory where the schema file has an entry for exactly
\* the tables that have a data file (an empty directory to start with) leaves
\* it so: an entry for a name if and only if the data file of that name
\* exists.
C39_SchemaMatchesDataFiles ==
    (Done /\ FileBacked(prior) /\ C39_Agree(prior)) => C39_Agree(store)

-----------------------------------------------------------------------------
(* C40: update with an index out of range, in memory and on the overlay     *)

C40_UpdatesOutOfRange ==
    /\ Done
    /\ call.op = "update"
    /\ \/ prior.kind = "memory" /\ BaseHolds(prior, call.name)
       \/ InOverlay(prior, call.name)
    /\ ~InRange(call.idx, TargetRows(prior, call.name))

\* C40: on the in-memory store and on an overlay table of ExtendedTables,
\* update(table, idx, changes) with idx outside [0, row count), a negative
\* idx included, changes no row of the table.
C40_OutOfRangeChangesNoRow ==
    C40_UpdatesOutOfRange
    => TargetRows(store, call.name) = TargetRows(prior, call.name)

====
